---- MODULE Spec2Model ----
(***************************************************************************)
(* A model of the Lox bytecode compiler and virtual machine (mr-adult/Lox). *)
(*                                                                         *)
(*   - ObjectHeap   (src/src/heap.rs):      add, collect_garbage            *)
(*   - compile/run  (src/src/compiler.rs, src/src/vm.rs): the pipeline      *)
(*     source -> token stream -> Compiler -> chunks -> VM -> exit code      *)
(*                                                                         *)
(* The heap and the pipeline do not share state in the source (main.rs      *)
(* declares no heap module); each has a specification of its own over the  *)
(* same variables, the other part staying idle.                            *)
(***************************************************************************)
EXTENDS Integers, Sequences, FiniteSets, TLC

VARIABLES
    \* ---- ObjectHeap (heap.rs) ----
    first_obj,      \* the owning linked list, head first: a sequence of string contents
    objs,           \* the intern set HashSet<Rc<Object>>: a set of string contents
    ext_refs,       \* per content: Rc handles held outside the heap (the values add returned)
    gc_log,         \* ghost: what the last collect_garbage call saw and left
    \* ---- Tokenizer (tokenizer.rs) ----
    source,         \* Tokenizer.source: the text, a sequence of characters
    chars,          \* Tokenizer.chars: how many characters the iterator has yielded
    current_position,\* Tokenizer.current_position: [line, col, byte]
    stream,         \* the items next() has returned so far, in order
    \* ---- FixedVec (fixed_vec.rs) ----
    arr,            \* FixedVec.arr: slot index (from 0) -> Option, <<>> None, <<v>> Some(v)
    len,            \* FixedVec.len
    fv_log,         \* ghost: the last call of push or pop and what it returned
    \* ---- run / compile / VM (vm.rs, compiler.rs) ----
    pc,             \* position in run(): see the actions below
    src,            \* the source text, as the sequence of lexemes the tokenizer will meet
    tokens,         \* Compiler.tokens: the Ok tokens of the stream, in order
    pos,            \* how many of them the peekable iterator has yielded
    previous,       \* Compiler.previous: index into tokens, 0 for None
    current,        \* Compiler.current:  index into tokens, 0 for None
    chunks,         \* Compiler.chunks, then VM.code: sequence of [op, line]
    errs,           \* Compiler.errs (or the lexical errors compile() reports)
    values,         \* Compiler.values, then VM.compiled_values: the constant pool
    compile_result, \* "none" | "Ok" | "Err": what compile() returned
    ip,             \* VM.ip (0-based, as in the source)
    runtime_values, \* VM.runtime_values: the operand stack, bottom first
    runtime_strings,\* VM.runtime_strings
    compiled_strings,\* VM.compiled_strings
    iterations,     \* how many iterations of VM::run's for loop have started
    vm_result,      \* "none" | "Ok" | "RuntimeErr" | "Panic" | "OutOfIterations"
    vm_err,         \* the RunTimeErrKind and line of a RuntimeErr, else NoErr
    output,         \* the lines written by OpCode::Print
    exit_code,      \* the ExitCode run() returned, -1 before
    crash           \* "" or the Rust panic (todo!, expect, ...) that aborted the process

hvars == <<first_obj, objs, ext_refs, gc_log>>
tvars == <<source, chars, current_position, stream>>
fvars == <<arr, len, fv_log>>
cvars == <<tokens, pos, previous, current, chunks, errs, values, compile_result>>
vmvars == <<ip, runtime_values, runtime_strings, compiled_strings, iterations,
            vm_result, vm_err, output>>
pvars == <<pc, src, cvars, vmvars, exit_code, crash>>
vars == <<hvars, tvars, fvars, pvars>>

(***************************************************************************)
(* Bounds of the model.                                                    *)
(***************************************************************************)
MaxRefs == 2        \* external handles per heap object
MaxLen == 4         \* lexemes in a source drawn from the core alphabet
MaxNest == 2        \* ... of which so many may be a "("
MaxStack == 2       \* operands on the stack of a VM state drawn mid-execution
PoolSlack == 2      \* statements below and above STACK_MAX in the long sources
MaxLineLen == 6     \* lexemes, line breaks included, in a source of several lines
MaxStatements == 3  \* statements in a program of print statements
MaxDigits == 2      \* digits before, and after, the '.' of a number literal
MaxChars == 4       \* characters in a text drawn from the tokenizer's alphabet
MaxComment == 6     \* characters in a text of comment characters
MaxFairChars == 3   \* characters in a text of the tokenizer runs checked for their end
Capacity == 3       \* N of the FixedVec<T, N> exercised on its own
MaxFairTokens == 3  \* lexemes in a source of the compilations checked for their end
MaxFairLen == 2     \* lexemes in a source of the runs checked for termination
MaxFairStack == 1   \* operands on the stack of a VM state of those runs

(***************************************************************************)
(* ObjectHeap                                                              *)
(***************************************************************************)
NUM_INTERNAL_REFS == 2

\* The string payloads the heap is exercised with.
HeapStrings == {"a", "b", "c"}

InList(c) == \E i \in 1..Len(first_obj) : first_obj[i] = c

\* Rc::strong_count of the allocation holding content c: one per list node,
\* one for the intern set, one per handle held outside.
strong_count(c) ==
    Cardinality({i \in 1..Len(first_obj) : first_obj[i] = c})
    + (IF c \in objs THEN 1 ELSE 0)
    + ext_refs[c]

NoGc == [before |-> <<>>, after |-> <<>>, interned |-> {}, live |-> {}, ran |-> FALSE,
         refs |-> [c \in HeapStrings |-> 0], counts |-> [c \in HeapStrings |-> 0]]

HeapNew ==
    /\ first_obj = <<>>
    /\ objs = {}
    /\ ext_refs = [c \in HeapStrings |-> 0]
    /\ gc_log = NoGc

\* An add that allocates and links a node whatever the intern set holds
add_always_allocating(c) ==
    /\ ext_refs[c] < MaxRefs
    /\ objs' = objs \cup {c}
    /\ first_obj' = <<c>> \o first_obj
    /\ ext_refs' = [ext_refs EXCEPT ![c] = @ + 1]
    /\ UNCHANGED gc_log

\* ObjectHeap::add.  The fresh Rc is dropped when an equal object is interned
\* already, and the interned one is cloned for the caller.
add(c) ==
    /\ ext_refs[c] < MaxRefs
    /\ IF c \in objs
       THEN UNCHANGED <<first_obj, objs>>
       ELSE /\ objs' = objs \cup {c}
            /\ first_obj' = <<c>> \o first_obj
    /\ ext_refs' = [ext_refs EXCEPT ![c] = @ + 1]
    /\ UNCHANGED gc_log

\* A holder drops a handle add returned.
drop_ref(c) ==
    /\ ext_refs[c] > 0
    /\ ext_refs' = [ext_refs EXCEPT ![c] = @ - 1]
    /\ UNCHANGED <<first_obj, objs, gc_log>>

\* A node test that also takes referenced objects for garbage
IsGarbageCountingDown(c) == strong_count(c) >= NUM_INTERNAL_REFS

\* The node test of collect_garbage's loop.
IsGarbage(c) == strong_count(c) = NUM_INTERNAL_REFS

\* A sweep that stops at the first node it unlinks
RECURSIVE SweepUntilUnlink(_)
SweepUntilUnlink(list) ==
    IF list = <<>> THEN <<>>
    ELSE IF IsGarbage(Head(list))
         THEN Tail(list)
         ELSE <<Head(list)>> \o SweepUntilUnlink(Tail(list))

\* The loop of collect_garbage over the list from node `list` on: a node whose
\* item has exactly the heap's references is unlinked, any other is kept.
RECURSIVE Sweep(_)
Sweep(list) ==
    IF list = <<>> THEN <<>>
    ELSE IF IsGarbage(Head(list))
         THEN Sweep(Tail(list))
         ELSE <<Head(list)>> \o Sweep(Tail(list))

\* The intern set after collect_garbage: the function never touches objs.
SweptSet == objs

\* ObjectHeap::collect_garbage.
collect_garbage ==
    /\ first_obj' = Sweep(first_obj)
    /\ objs' = SweptSet
    /\ gc_log' = [before |-> first_obj, after |-> Sweep(first_obj), interned |-> SweptSet,
                  live |-> {c \in HeapStrings : ext_refs[c] > 0}, ran |-> TRUE,
                  refs |-> ext_refs, counts |-> [c \in HeapStrings |-> strong_count(c)]]
    /\ UNCHANGED ext_refs


(***************************************************************************)
(* FixedVec<T, N> (fixed_vec.rs), for N = Capacity.  An Option is <<>>     *)
(* (None) or <<v>> (Some(v)).                                              *)
(***************************************************************************)
\* the values pushed
PushedValues == {"x", "y", "z"}

NoCall == [op |-> "none", val |-> "", returned |-> <<>>, ok |-> TRUE]

\* FixedVec::new
FixedVecNew ==
    /\ arr = [i \in 0..(Capacity - 1) |-> <<>>]
    /\ len = 0
    /\ fv_log = NoCall

\* FixedVec::push: Err(AlreadyFull) is ok = FALSE
push(val) ==
    IF len >= Capacity
    THEN /\ fv_log' = [op |-> "push", val |-> val, returned |-> <<>>, ok |-> FALSE]
         /\ UNCHANGED <<arr, len>>
    ELSE /\ arr' = [arr EXCEPT ![len] = <<val>>]
         /\ len' = len + 1
         /\ fv_log' = [op |-> "push", val |-> val, returned |-> <<>>, ok |-> TRUE]

\* A pop that leaves the value in its slot
pop_keeping_slot ==
    IF len > 0
    THEN /\ len' = len - 1
         /\ fv_log' = [op |-> "pop", val |-> "", returned |-> arr[len - 1], ok |-> TRUE]
         /\ UNCHANGED arr
    ELSE /\ fv_log' = [op |-> "pop", val |-> "", returned |-> <<>>, ok |-> TRUE]
         /\ UNCHANGED <<arr, len>>

\* FixedVec::pop: Some(std::mem::take(&mut self.arr[self.len])).unwrap() is
\* the Option that was in the slot, and the slot is left None
pop ==
    IF len > 0
    THEN /\ len' = len - 1
         /\ arr' = [arr EXCEPT ![len - 1] = <<>>]
         /\ fv_log' = [op |-> "pop", val |-> "", returned |-> arr[len - 1], ok |-> TRUE]
    ELSE /\ fv_log' = [op |-> "pop", val |-> "", returned |-> <<>>, ok |-> TRUE]
         /\ UNCHANGED <<arr, len>>

\* FixedVec::get: None beyond the array, else the slot's Option as a reference
get(index) == IF index \in DOMAIN arr THEN arr[index] ELSE <<>>

\* FixedVec::iter, then Iter::next until it returns None: the slice iterator
\* at slot i yields the slot's value, and None at the first empty slot or
\* behind the last slot
RECURSIVE IterFrom(_)
IterFrom(i) ==
    IF i \notin DOMAIN arr \/ arr[i] = <<>> THEN <<>>
    ELSE arr[i] \o IterFrom(i + 1)

iter == IterFrom(0)

(***************************************************************************)
(* Values (value.rs) and numbers                                           *)
(*                                                                         *)
(* A Value is [type, n, d, s, tbl].  A Number is the exact quotient n/d of *)
(* the f64 (d > 0, lowest terms); d = 0 stands for the non-finite f64s:    *)
(* n = 1 is inf, n = -1 is -inf, n = 0 is NaN.  An Object is a string:     *)
(* s is its text and tbl says where the payload lives: "const" (owned by   *)
(* the constant the compiler built), "compiled" or "runtime" (a pointer    *)
(* into VM.compiled_strings / VM.runtime_strings).                         *)
(***************************************************************************)
NilValue == [type |-> "Nil", n |-> 0, d |-> 1, s |-> "", tbl |-> ""]
BooleanValue(b) == [type |-> "Boolean", n |-> IF b THEN 1 ELSE 0, d |-> 1, s |-> "", tbl |-> ""]
Num(n, d) == [type |-> "Number", n |-> n, d |-> d, s |-> "", tbl |-> ""]
NumberValue(n) == Num(n, 1)
StringObject(tbl, text) == [type |-> "Object", n |-> 0, d |-> 1, s |-> text, tbl |-> tbl]

Abs(x) == IF x < 0 THEN -x ELSE x
Sign(x) == IF x < 0 THEN -1 ELSE IF x > 0 THEN 1 ELSE 0

RECURSIVE Gcd(_, _)
Gcd(a, b) == IF b = 0 THEN a ELSE Gcd(b, a % b)

\* The f64 with exact value n/d (d # 0), or the non-finite one with sign n (d = 0).
Ratio(n, d) ==
    IF d = 0 THEN Num(Sign(n), 0)
    ELSE LET g == Gcd(Abs(n), Abs(d))
             sg == IF d < 0 THEN -1 ELSE 1
         IN  Num(sg * (n \div g), Abs(d) \div g)

IsNaN(x) == x.d = 0 /\ x.n = 0
IsInf(x) == x.d = 0 /\ x.n # 0

\* f64 addition, a + b
NumAdd(a, b) ==
    IF IsNaN(a) \/ IsNaN(b) THEN Num(0, 0)
    ELSE IF IsInf(a) /\ IsInf(b) THEN (IF a.n = b.n THEN a ELSE Num(0, 0))
    ELSE IF IsInf(a) THEN a
    ELSE IF IsInf(b) THEN b
    ELSE Ratio(a.n * b.d + b.n * a.d, a.d * b.d)

\* f64 negation
NumNeg(a) == Num(-a.n, a.d)

NumSub(a, b) == NumAdd(a, NumNeg(b))

\* f64 multiplication
NumMul(a, b) ==
    IF IsNaN(a) \/ IsNaN(b) THEN Num(0, 0)
    ELSE IF IsInf(a) \/ IsInf(b) THEN Num(Sign(a.n) * Sign(b.n), 0)
    ELSE Ratio(a.n * b.n, a.d * b.d)

\* f64 division: x/0 is an infinity of x's sign, 0/0 and inf/inf are NaN
NumDiv(a, b) ==
    IF IsNaN(a) \/ IsNaN(b) THEN Num(0, 0)
    ELSE IF IsInf(a) THEN (IF IsInf(b) THEN Num(0, 0)
                           ELSE Num(a.n * (IF b.n < 0 THEN -1 ELSE 1), 0))
    ELSE IF IsInf(b) THEN Num(0, 1)
    ELSE IF b.n = 0 THEN Num(Sign(a.n), 0)
    ELSE Ratio(a.n * b.d, a.d * b.n)

\* f64 ==, > and <: every comparison with NaN is false
NumEq(a, b) == ~IsNaN(a) /\ ~IsNaN(b) /\ a.n = b.n /\ a.d = b.d
NumGt(a, b) ==
    /\ ~IsNaN(a) /\ ~IsNaN(b)
    /\ IF IsInf(a) \/ IsInf(b)
       THEN (IF IsInf(a) THEN a.n ELSE 0) > (IF IsInf(b) THEN b.n ELSE 0)
       ELSE a.n * b.d > b.n * a.d
NumLt(a, b) == NumGt(b, a)

\* impl Clone for Value: the Object arm is todo!()
ValueClone(v) ==
    IF v.type = "Object" THEN [ok |-> FALSE, value |-> v]
    ELSE [ok |-> TRUE, value |-> v]

\* f64::to_string of a number; a finite value that is no integer is written
\* as its exact quotient
\* whether n/d has a finite decimal expansion: d has no prime factor but 2 and 5
RECURSIVE Terminating(_)
Terminating(d) ==
    IF d % 2 = 0 THEN Terminating(d \div 2)
    ELSE IF d % 5 = 0 THEN Terminating(d \div 5)
    ELSE d = 1

\* the digits after the point of r/d, r < d
RECURSIVE FractionDigits(_, _)
FractionDigits(r, d) ==
    IF r = 0 THEN ""
    ELSE ToString((10 * r) \div d) \o FractionDigits((10 * r) % d, d)

\* a Display that writes the whole part only
NumberTextTruncated(v) ==
    IF v.d = 0 THEN (IF v.n = 0 THEN "NaN" ELSE IF v.n > 0 THEN "inf" ELSE "-inf")
    ELSE ToString(v.n \div v.d)

\* f64's Display: the shortest decimal text that reads back as the number,
\* without exponent; for a number of few digits that is its exact decimal
\* expansion.  A quotient with no finite expansion is written n/d here.
NumberText(v) ==
    IF v.d = 0 THEN (IF v.n = 0 THEN "NaN" ELSE IF v.n > 0 THEN "inf" ELSE "-inf")
    ELSE IF v.d = 1 THEN ToString(v.n)
    ELSE IF Terminating(v.d)
    THEN (IF v.n < 0 THEN "-" ELSE "") \o ToString(Abs(v.n) \div v.d) \o "."
         \o FractionDigits(Abs(v.n) % v.d, v.d)
    ELSE ToString(v.n) \o "/" \o ToString(v.d)

\* Value::to_string: the Object arm is todo!()
to_string(v) ==
    CASE v.type = "Nil" -> [ok |-> TRUE, text |-> "nil"]
      [] v.type = "Boolean" -> [ok |-> TRUE, text |-> IF v.n = 1 THEN "true" ELSE "false"]
      [] v.type = "Number" -> [ok |-> TRUE, text |-> NumberText(v)]
      [] OTHER -> [ok |-> FALSE, text |-> ""]


(***************************************************************************)
(* The token stream (tokenizer.rs, at the level of lexemes)                *)
(*                                                                         *)
(* A source is the sequence of lexemes the tokenizer meets: a token        *)
(* [kind, n, s] (n the value of a Number, s the text of a String between   *)
(* its quotes), a line break "NL", or a piece of text on which next()      *)
(* yields a LoxParseErr (InvalidChar, TrailingPeriod, UnexpectedEOF).      *)
(***************************************************************************)
Lx(kind) == [kind |-> kind, n |-> 0, d |-> 1, s |-> ""]
NumLx(n) == [kind |-> "Number", n |-> n, d |-> 1, s |-> ""]
StrLx(s) == [kind |-> "String", n |-> 0, d |-> 1, s |-> s]

LexErrKinds == {"InvalidChar", "TrailingPeriod", "UnexpectedEOF"}

\* Position.line of the lexeme at index i: one more per '\n' before it
LineAt(lexemes, i) == Cardinality({j \in 1..(i - 1) : lexemes[j].kind = "NL"})

\* The items of the stream, in order, each with the line it starts on
Items(lexemes) ==
    SelectSeq([i \in 1..Len(lexemes) |->
                  [kind |-> lexemes[i].kind, n |-> lexemes[i].n, d |-> lexemes[i].d,
                   s |-> lexemes[i].s,
                   line |-> LineAt(lexemes, i)]],
              LAMBDA item : item.kind # "NL")

\* The Ok items of the stream, in order
TokensFrom(lexemes) == SelectSeq(Items(lexemes), LAMBDA item : item.kind \notin LexErrKinds)

\* The Err items of the stream, in order
IsLexErr(item) == item.kind \in LexErrKinds
LexErrsFrom(lexemes) ==
    LET bad == SelectSeq(Items(lexemes), IsLexErr)
    IN  [i \in 1..Len(bad) |-> [kind |-> "Parse", detail |-> bad[i].kind, line |-> bad[i].line]]

\* compile(), lines 15-27: what the loop over the stream leaves in `errs`.
\* The None arm creates the Vec and pushes nothing, the Some arm pushes.
CollectedLexErrs(lexErrs) == IF lexErrs = <<>> THEN <<>> ELSE Tail(lexErrs)

(***************************************************************************)
(* The tokenizer (tokenizer.rs, at the level of characters)                *)
(*                                                                         *)
(* The text is a sequence of characters, all of one byte, so the byte      *)
(* offset of the character at index i (from 1) is i - 1.  A tokenizer is   *)
(* [chars, current_position]; an operator that consumes characters gives   *)
(* the tokenizer after it.                                                 *)
(***************************************************************************)
Digits == {"0", "1", "2", "3", "4", "5", "6", "7", "8", "9"}
Letters ==
    {"a", "b", "c", "d", "e", "f", "g", "h", "i", "j", "k", "l", "m", "n", "o", "p", "q",
     "r", "s", "t", "u", "v", "w", "x", "y", "z", "A", "B", "C", "D", "E", "F", "G", "H",
     "I", "J", "K", "L", "M", "N", "O", "P", "Q", "R", "S", "T", "U", "V", "W", "X", "Y",
     "Z"}
IdentStart == Letters \cup {"_"}
IdentPart == IdentStart \cup Digits

\* char::is_ascii_whitespace: space, tab, line feed, form feed, carriage return
AsciiWhitespace == {" ", "\t", "\n", "\f", "\r"}

\* the characters of the text other than ch: the predicate |c| c != ch
NotChar(ch) == {source[i] : i \in 1..Len(source)} \ {ch}

\* Position::default
StartPosition == [line |-> 0, col |-> 0, byte |-> 0]

\* Tokenizer::new
TokenizerIdle ==
    /\ source = <<>>
    /\ chars = 0
    /\ current_position = StartPosition
    /\ stream = <<>>

Tokenizer == [chars |-> chars, current_position |-> current_position]

\* self.chars.peek(): is_none, and the character of Some
AtEnd(t) == t.chars >= Len(source)
peek(t) == source[t.chars + 1]

\* the position of a character met at `position`, as next_char and
\* peek_position both compute it
Advanced(position, ch, byte) ==
    IF ch = "\n"
    THEN [line |-> position.line + 1, col |-> 0, byte |-> byte]
    ELSE [line |-> position.line, col |-> position.col + 1, byte |-> byte]

next_char(t) ==
    IF AtEnd(t)
    THEN [t EXCEPT !.current_position.byte = Len(source)]
    ELSE [chars |-> t.chars + 1,
          current_position |-> Advanced(t.current_position, peek(t), t.chars)]

\* a peek_position that reports the character last consumed
peek_position_of_current(t) == t.current_position

peek_position(t) ==
    IF AtEnd(t)
    THEN [t.current_position EXCEPT !.byte = Len(source)]
    ELSE Advanced(t.current_position, peek(t), t.chars)

\* match_char_if with the predicate "is one of `set`": whether it returns
\* true, and the tokenizer it leaves
Accepts(t, set) == ~AtEnd(t) /\ peek(t) \in set
match_char_if(t, set) == IF Accepts(t, set) THEN next_char(t) ELSE t
match_char(t, ch) == match_char_if(t, {ch})

\* the tokenizer after next_char was called m times more, characters left
Skipped(t, m) ==
    [chars |-> t.chars + m,
     current_position |->
         [line |-> t.current_position.line
                   + Cardinality({j \in (t.chars + 1)..(t.chars + m) : source[j] = "\n"}),
          col |-> IF \E j \in (t.chars + 1)..(t.chars + m) : source[j] = "\n"
                  THEN Cardinality({j \in (t.chars + 1)..(t.chars + m) :
                                       \A l \in j..(t.chars + m) : source[l] # "\n"})
                  ELSE t.current_position.col + m,
          byte |-> IF m = 0 THEN t.current_position.byte ELSE t.chars + m - 1]]

\* how many characters the first k are followed by that are all of `set`
RunLength(k, set) ==
    (CHOOSE j \in (k + 1)..(Len(source) + 1) :
         /\ j > Len(source) \/ source[j] \notin set
         /\ \A l \in (k + 1)..(j - 1) : source[l] \in set) - (k + 1)

\* the element of a set of one element
The(S) == CHOOSE x \in S : TRUE

\* match_char_while with the predicate "is one of `set`": next_char for
\* each character up to the first that is none of them
match_char_while(t, set) ==
    The({Skipped(u, m) : <<u, m>> \in {<<v, RunLength(v.chars, set)>> : v \in {t}}})

\* the items of the stream, and what next() returns: Some(item) or None
Token(kind, start, end) == [ok |-> TRUE, kind |-> kind, start |-> start, end |-> end]
ParseErr(kind, start, end) == [ok |-> FALSE, kind |-> kind, start |-> start, end |-> end]
None == [ok |-> FALSE, kind |-> "None"]
Yield(t, item) == [t |-> t, item |-> item]

\* &self.source[from.byte..to.byte]
RECURSIVE Slice(_, _)
Slice(from, to) ==
    IF from >= to THEN ""
    ELSE IF to = from + 1 THEN source[to]
    ELSE Slice(from, (from + to) \div 2) \o Slice((from + to) \div 2, to)

\* a number that takes a trailing period for part of it
match_number_keeping_period(t, start_pos) ==
    Yield(match_char_while(match_char(match_char_while(t, Digits), "."), Digits),
          Token("Number", start_pos,
                peek_position(match_char_while(match_char(match_char_while(t, Digits), "."),
                                               Digits))))

\* match_number, the part after the '.' was matched
Fraction(t, start_pos) ==
    IF ~Accepts(t, Digits)
    THEN Yield(t, ParseErr("TrailingPeriod", t.current_position, peek_position(t)))
    ELSE Yield(match_char_while(match_char_if(t, Digits), Digits),
               Token("Number", start_pos,
                     peek_position(match_char_while(match_char_if(t, Digits), Digits))))

\* match_number, the part after the first run of digits
AfterDigits(t, start_pos) ==
    IF Accepts(t, {"."})
    THEN Fraction(match_char(t, "."), start_pos)
    ELSE Yield(t, Token("Number", start_pos, peek_position(t)))

match_number(t, start_pos) == AfterDigits(match_char_while(t, Digits), start_pos)

\* a string body that ends at the first quote, escaped or not
StringBodyToFirstQuote(t, previous_was_backslash) == match_char_while(t, NotChar("\""))

\* the closure of match_string, from a tokenizer and its flag on: the
\* tokenizer where match_char_while stops
RECURSIVE StringBody(_, _)
StringBody(t, previous_was_backslash) ==
    IF AtEnd(t) THEN t
    ELSE IF peek(t) = "\\" THEN StringBody(next_char(t), TRUE)
    ELSE IF peek(t) = "\""
    THEN (IF ~previous_was_backslash THEN t ELSE StringBody(next_char(t), FALSE))
    ELSE StringBody(next_char(t), FALSE)

\* match_string, after the closure stopped
ClosingQuote(t, start_pos) ==
    IF ~Accepts(t, {"\""})
    THEN Yield(t, ParseErr("UnexpectedEOF", start_pos, peek_position(t)))
    ELSE Yield(next_char(t), Token("String", start_pos, peek_position(next_char(t))))

match_string(t) == ClosingQuote(StringBody(t, FALSE), t.current_position)

\* the keyword table of match_identifier
Keywords ==
    ("and" :> "And") @@ ("class" :> "Class") @@ ("else" :> "Else") @@ ("false" :> "False")
    @@ ("fun" :> "Fun") @@ ("for" :> "For") @@ ("if" :> "If") @@ ("nil" :> "Nil")
    @@ ("or" :> "Or") @@ ("print" :> "Print") @@ ("return" :> "Return")
    @@ ("super" :> "Super") @@ ("this" :> "This") @@ ("true" :> "True")
    @@ ("var" :> "Var") @@ ("while" :> "While")

KindOf(ident) == IF ident \in DOMAIN Keywords THEN Keywords[ident] ELSE "Identifier"

\* match_identifier, after the characters were matched
Classified(t, start, start_pos) ==
    Yield(t, Token(KindOf(Slice(start.byte, peek_position(t).byte)), start_pos,
                   peek_position(t)))

\* an identifier that ends at the first digit
match_identifier_without_digits(t, start_pos) ==
    Classified(match_char_while(match_char_if(t, IdentStart), IdentStart),
               t.current_position, start_pos)

match_identifier(t, start_pos) ==
    Classified(match_char_while(match_char_if(t, IdentStart), IdentPart),
               t.current_position, start_pos)

\* the tokens of one character, and those an '=' may follow
SingleChar ==
    ("(" :> "LeftParen") @@ (")" :> "RightParen") @@ ("{" :> "LeftBrace")
    @@ ("}" :> "RightBrace") @@ ("," :> "Comma") @@ ("." :> "Dot") @@ ("-" :> "Minus")
    @@ ("+" :> "Plus") @@ (";" :> "Semicolon") @@ ("*" :> "Star")
WithEqual ==
    ("!" :> <<"Bang", "BangEqual">>) @@ ("=" :> <<"Equal", "EqualEqual">>)
    @@ (">" :> <<"Greater", "GreaterEqual">>) @@ ("<" :> <<"Less", "LessEqual">>)

\* next(), '/' branch, single line comment: through the end of the line
LineComment(t) == match_char(match_char_while(t, NotChar("\n")), "\n")

\* a multi line comment that ends at the first '*'
BlockCommentToStar(t) == match_char(match_char_while(t, NotChar("*")), "*")

\* next(), '/' branch, multi line comment: the loop, entered after `/*`
RECURSIVE BlockComment(_)
BlockCommentRest(t) == IF AtEnd(t) THEN t ELSE BlockComment(t)
BlockCommentAtStar(t) ==
    IF Accepts(t, {"*"}) /\ Accepts(next_char(t), {"/"})
    THEN next_char(next_char(t))
    ELSE BlockCommentRest(match_char(t, "*"))
BlockComment(t) == BlockCommentAtStar(match_char_while(t, NotChar("*")))

\* Iterator::next: the loop, and the match on the character just consumed
\* (t is the tokenizer after next_char, so token_start is its position)
RECURSIVE next(_)

\* a last arm that skips whatever starts no token
OtherSkipped(t, ch) == next(t)

\* the arm `other =>`
Other(t, ch) ==
    IF ch \in AsciiWhitespace THEN next(t)
    ELSE Yield(t, ParseErr("InvalidChar", t.current_position, peek_position(t)))

OnChar(t, ch) ==
    CASE ch \in DOMAIN SingleChar ->
           Yield(t, Token(SingleChar[ch], t.current_position, peek_position(t)))
      [] ch = "/" ->
           IF Accepts(t, {"/"}) THEN next(LineComment(next_char(t)))
           ELSE IF Accepts(t, {"*"}) THEN next(BlockComment(next_char(t)))
           ELSE Yield(t, Token("Slash", t.current_position, peek_position(t)))
      [] ch \in DOMAIN WithEqual ->
           IF Accepts(t, {"="})
           THEN Yield(next_char(t), Token(WithEqual[ch][2], t.current_position,
                                          peek_position(next_char(t))))
           ELSE Yield(t, Token(WithEqual[ch][1], t.current_position, peek_position(t)))
      [] ch \in Digits -> match_number(t, t.current_position)
      [] ch = "\"" -> match_string(t)
      [] ch \in IdentStart -> match_identifier(t, t.current_position)
      [] OTHER -> Other(t, ch)
Returns(t) == IF AtEnd(t) THEN Yield(next_char(t), None) ELSE OnChar(next_char(t), peek(t))
next(t) == The({Returns(u) : u \in {t}})

(***************************************************************************)
(* From the text to the lexemes the compiler reads                         *)
(***************************************************************************)
\* every item of the stream of a tokenizer, in order: what next() returns,
\* and then every item of the tokenizer it leaves
RECURSIVE Drain(_)
Collected(r) == IF r.item = None THEN <<>> ELSE <<r.item>> \o Drain(r.t)
Drain(t) == The({Collected(r) : r \in {next(t)}})

DigitValue ==
    ("0" :> 0) @@ ("1" :> 1) @@ ("2" :> 2) @@ ("3" :> 3) @@ ("4" :> 4) @@ ("5" :> 5)
    @@ ("6" :> 6) @@ ("7" :> 7) @@ ("8" :> 8) @@ ("9" :> 9)

RECURSIVE Natural(_)
Natural(digits) ==
    IF digits = <<>> THEN 0
    ELSE 10 * Natural(SubSeq(digits, 1, Len(digits) - 1)) + DigitValue[digits[Len(digits)]]

RECURSIVE Pow10(_)
Pow10(k) == IF k = 0 THEN 1 ELSE 10 * Pow10(k - 1)

\* the parts of the text of a Number token: its digits before the '.',
\* those after it, and how many digits the whole part has from its first
\* digit other than 0
WholePart(literal) ==
    SubSeq(literal, 1, Cardinality({i \in 1..Len(literal) :
                                       \A j \in 1..i : literal[j] # "."}))
FractionPart(literal) == SubSeq(literal, Len(WholePart(literal)) + 2, Len(literal))
LeadingZeros(digits) ==
    Cardinality({i \in 1..Len(digits) : \A j \in 1..i : digits[j] = "0"})
SignificantDigits(literal) == Len(WholePart(literal)) - LeadingZeros(WholePart(literal))

\* f64::MAX_10_EXP: f64::MAX is below 10^309, a number of 310 digits
F64_MAX_10_EXP == 308

\* str::parse::<f64> on the text of a Number token: the nearest f64, which
\* is infinity for a number of more than 309 digits and the number itself
\* for one of few digits (no text of a length in between is parsed here)
parse_f64(literal) ==
    IF SignificantDigits(literal) > F64_MAX_10_EXP + 1 THEN Num(1, 0)
    ELSE Ratio(Natural(WholePart(literal) \o FractionPart(literal)),
               Pow10(Len(FractionPart(literal))))

\* the lexeme of an item: for a Number the f64 its text parses to, for a
\* String the text between its quotes (compiler.rs, primary)
NumberLexeme(v) == [kind |-> "Number", n |-> v.n, d |-> v.d, s |-> ""]
Lexeme(item) ==
    IF item.ok /\ item.kind = "Number"
    THEN NumberLexeme(parse_f64(SubSeq(source, item.start.byte + 1, item.end.byte)))
    ELSE IF item.ok /\ item.kind = "String"
    THEN StrLx(Slice(item.start.byte + 1, item.end.byte - 1))
    ELSE Lx(item.kind)

\* the lexemes of the items, with a line break for each line an item
\* starts further down than the one before it
LineBefore(items, k) == IF k = 1 THEN 0 ELSE items[k - 1].start.line
RECURSIVE LexemesFrom(_, _)
LexemesFrom(items, k) ==
    IF k > Len(items) THEN <<>>
    ELSE [i \in 1..(items[k].start.line - LineBefore(items, k)) |-> Lx("NL")]
         \o <<Lexeme(items[k])>> \o LexemesFrom(items, k + 1)

Lexemes ==
    The({LexemesFrom(items, 1) :
            items \in {Drain([chars |-> 0, current_position |-> StartPosition])}})

(***************************************************************************)
(* Chunks and opcodes (chunk.rs)                                           *)
(***************************************************************************)
OpCode ==
    [Constant |-> 0, Nil |-> 1, True |-> 2, False |-> 3, Pop |-> 4, GetLocal |-> 5,
     SetLocal |-> 6, GetGlobal |-> 7, DefineGlobal |-> 8, SetGlobal |-> 9,
     GetUpValue |-> 10, SetUpValue |-> 11, GetProperty |-> 12, SetProperty |-> 13,
     GetSuper |-> 14, Equal |-> 15, Greater |-> 16, Less |-> 17, Add |-> 18,
     Subtract |-> 19, Multiply |-> 20, Divide |-> 21, Not |-> 22, Negate |-> 23,
     Jump |-> 25, JumpIfFalse |-> 26, Loop |-> 27, Call |-> 28,
     Invoke |-> 29, SuperInvoke |-> 30, Closure |-> 31, CloseUpValue |-> 32,
     Return |-> 33, Class |-> 34, Inherit |-> 35, Method |-> 36]
    @@ ("Print" :> 24)

\* impl TryFrom<u8> for OpCode: the arms in order, "Err" for any other byte
OpCodeArms ==
    <<"Constant", "Nil", "True", "False", "Pop", "GetLocal", "SetLocal", "GetGlobal",
      "DefineGlobal", "SetGlobal", "GetUpValue", "SetUpValue", "GetProperty",
      "SetProperty", "GetSuper", "Equal", "Greater", "Less", "Add", "Subtract",
      "Multiply", "Divide", "Not", "Negate", "Print", "Jump", "JumpIfFalse", "Loop",
      "Call", "Invoke", "SuperInvoke", "Closure", "CloseUpValue", "Return", "Class",
      "Inherit", "Method">>

\* A decoding that wraps the bytes past the last arm around to the first
try_from_wrapping(byte) == OpCodeArms[(byte % Len(OpCodeArms)) + 1]

try_from(byte) == IF byte \in 0..(Len(OpCodeArms) - 1) THEN OpCodeArms[byte + 1] ELSE "Err"

STACK_MAX == 255

(***************************************************************************)
(* The compiler (compiler.rs).  A parser state p is [pos, previous,        *)
(* current]; the parse functions return [tree, p].                         *)
(***************************************************************************)
\* tokens.peek(): the kind of the next token, "EOF" for None
Peek(p) == IF p.pos < Len(tokens) THEN tokens[p.pos + 1].kind ELSE "EOF"

\* Compiler::next_token
next_token(p) ==
    IF p.pos < Len(tokens)
    THEN [pos |-> p.pos + 1, previous |-> p.current, current |-> p.pos + 1]
    ELSE [pos |-> p.pos, previous |-> p.current, current |-> 0]

\* Compiler::match_token: whether it matches; when it does the token is consumed
Matches(p, kind) == p.pos < Len(tokens) /\ tokens[p.pos + 1].kind = kind
match_token(p, kind) == IF Matches(p, kind) THEN next_token(p) ELSE p

\* Compiler::location().line()
LocationLine(p) == IF p.previous = 0 THEN 0 ELSE tokens[p.previous].line

\* Compiler::chunk
Chunk(p, code) == [op |-> code, line |-> LocationLine(p)]

\* BinaryTreeNode<ExpressionTreeNode>; left and right are Options (<<>> is None)
ValueNode(v) ==
    [node |-> "Value", op |-> "", value |-> v, actual |-> "", left |-> <<>>, right |-> <<>>]
ErrorNode(actual) ==
    [node |-> "Error", op |-> "", value |-> NilValue, actual |-> actual,
     left |-> <<>>, right |-> <<>>]
OpNode(op, l, r) ==
    [node |-> "Operator", op |-> op, value |-> NilValue, actual |-> "", left |-> l, right |-> r]

RECURSIVE or(_), or_loop(_), and(_), and_loop(_), equality(_), equality_loop(_),
          comparison(_), comparison_loop(_), term(_), factor(_),
          factor_loop(_), unary(_), call(_), primary(_)

\* One round of a binary level's loop: the operator was matched, parse the
\* right operand with `rhs` and build the node.
Binary(op, r, rhs) ==
    [tree |-> OpNode(op, <<r.tree>>, <<rhs.tree>>), p |-> rhs.p]
\* A wrapping that leaves the Not node out
NotOfDropped(r) == r

\* ... wrapped in a Not node (left: None)
NotOf(r) == [tree |-> OpNode("Not", <<>>, <<r.tree>>), p |-> r.p]

\* The node a level's loop builds for the operator token `kind` it matched:
\* != , >= and <= become a Not over ==, < and >.
Infix(kind, r, rhs) ==
    CASE kind = "Or" -> Binary("Or", r, rhs)
      [] kind = "And" -> Binary("And", r, rhs)
      [] kind = "EqualEqual" -> Binary("Equal", r, rhs)
      [] kind = "BangEqual" -> NotOf(Binary("Equal", r, rhs))
      [] kind = "Greater" -> Binary("Greater", r, rhs)
      [] kind = "GreaterEqual" -> NotOf(Binary("Less", r, rhs))
      [] kind = "Less" -> Binary("Less", r, rhs)
      [] kind = "LessEqual" -> NotOf(Binary("Greater", r, rhs))
      [] kind = "Minus" -> Binary("Subtract", r, rhs)
      [] kind = "Plus" -> Binary("Add", r, rhs)
      [] kind = "Star" -> Binary("Multiply", r, rhs)
      [] kind = "Slash" -> Binary("Divide", r, rhs)
\* ... and the one unary builds for its prefix operator
Prefix(kind, r) ==
    [tree |-> OpNode(IF kind = "Bang" THEN "Not" ELSE "SignFlip", <<>>, <<r.tree>>), p |-> r.p]

\* A term level that parses its right operand at its own level
term_loop_right_operand_term(r) ==
    IF Peek(r.p) \in {"Minus", "Plus"}
    THEN Infix(Peek(r.p), r, term(next_token(r.p)))
    ELSE r

RECURSIVE term_loop(_)

or(p) == or_loop(and(p))
or_loop(r) ==
    IF Peek(r.p) \in {"Or"}
    THEN or_loop(Infix(Peek(r.p), r, and(next_token(r.p))))
    ELSE r

and(p) == and_loop(equality(p))
and_loop(r) ==
    IF Peek(r.p) \in {"And"}
    THEN and_loop(Infix(Peek(r.p), r, equality(next_token(r.p))))
    ELSE r

equality(p) == equality_loop(comparison(p))
equality_loop(r) ==
    IF Peek(r.p) \in {"EqualEqual", "BangEqual"}
    THEN equality_loop(Infix(Peek(r.p), r, comparison(next_token(r.p))))
    ELSE r

comparison(p) == comparison_loop(term(p))
comparison_loop(r) ==
    IF Peek(r.p) \in {"Greater", "GreaterEqual", "Less", "LessEqual"}
    THEN comparison_loop(Infix(Peek(r.p), r, term(next_token(r.p))))
    ELSE r

term(p) == term_loop(factor(p))
term_loop(r) ==
    IF Peek(r.p) \in {"Minus", "Plus"}
    THEN term_loop(Infix(Peek(r.p), r, factor(next_token(r.p))))
    ELSE r

factor(p) == factor_loop(unary(p))
factor_loop(r) ==
    IF Peek(r.p) \in {"Star", "Slash"}
    THEN factor_loop(Infix(Peek(r.p), r, unary(next_token(r.p))))
    ELSE r

unary(p) ==
    IF Peek(p) \in {"Bang", "Minus"} THEN Prefix(Peek(p), unary(next_token(p)))
    ELSE call(p)

call(p) == primary(p)

primary(p) ==
    LET p1 == next_token(p) IN
    IF p1.current = 0 THEN [tree |-> ErrorNode("EOF"), p |-> p1]
    ELSE LET token == tokens[p1.current] IN
         CASE token.kind = "True" -> [tree |-> ValueNode(BooleanValue(TRUE)), p |-> p1]
           [] token.kind = "False" -> [tree |-> ValueNode(BooleanValue(FALSE)), p |-> p1]
           [] token.kind = "Number" -> [tree |-> ValueNode(Num(token.n, token.d)), p |-> p1]
           [] token.kind = "String" ->
                [tree |-> ValueNode(StringObject("const", token.s)), p |-> p1]
           [] token.kind = "Nil" -> [tree |-> ValueNode(NilValue), p |-> p1]
           [] token.kind = "LeftParen" ->
                LET result == or(p1) IN
                IF Matches(result.p, "RightParen")
                THEN [tree |-> result.tree, p |-> next_token(result.p)]
                ELSE [tree |-> ErrorNode(Peek(result.p)), p |-> result.p]
           [] OTHER -> [tree |-> ErrorNode(token.kind), p |-> p1]

\* Compiler::expression
expression(p) == or(p)

\* dfs_postorder(): left subtree, right subtree, the node
RECURSIVE dfs_postorder(_)
dfs_postorder(t) ==
    (IF t.left = <<>> THEN <<>> ELSE dfs_postorder(t.left[1]))
    \o (IF t.right = <<>> THEN <<>> ELSE dfs_postorder(t.right[1]))
    \o <<[node |-> t.node, op |-> t.op, value |-> t.value, actual |-> t.actual]>>

\* Operator::to_bytecodes; <<>> stands for the todo!() arms
to_bytecodes(op) ==
    CASE op = "Equal" -> <<OpCode.Equal>>
      [] op = "Not" -> <<OpCode.Not>>
      [] op = "Greater" -> <<OpCode.Greater>>
      [] op = "Less" -> <<OpCode.Less>>
      [] op = "Divide" -> <<OpCode.Divide>>
      [] op = "Multiply" -> <<OpCode.Multiply>>
      [] op = "Add" -> <<OpCode.Add>>
      [] op = "Subtract" -> <<OpCode.Subtract>>
      [] op = "SignFlip" -> <<OpCode.Negate>>
      [] OTHER -> <<>>

CompileErr(kind, detail, p) == [kind |-> kind, detail |-> detail, line |-> LocationLine(p)]

\* FixedVec::<_, STACK_MAX>::push: [ok, vec], ok FALSE for Err(AlreadyFull)
FixedVecPush(vec, val) ==
    IF Len(vec) >= STACK_MAX THEN [ok |-> FALSE, vec |-> vec]
    ELSE [ok |-> TRUE, vec |-> Append(vec, val)]

\* A Value arm that gives every constant after the first the slot of the first
EmitValueSharingSlot(c, value) ==
    IF c.values = <<>>
    THEN [c EXCEPT !.chunks = c.chunks \o <<Chunk(c.p, OpCode.Constant), Chunk(c.p, 0)>>,
                   !.values = <<value>>]
    ELSE [c EXCEPT !.chunks = c.chunks \o <<Chunk(c.p, OpCode.Constant), Chunk(c.p, 0)>>]

\* A Value arm whose operand is the pool's length after the push
EmitValueCountingFromOne(c, value) ==
    IF Len(c.values) = STACK_MAX
    THEN [c EXCEPT !.chunks = Append(c.chunks, Chunk(c.p, OpCode.Constant)),
                   !.errs = Append(c.errs, CompileErr("TooManyValues", "", c.p))]
    ELSE [c EXCEPT !.chunks = c.chunks \o <<Chunk(c.p, OpCode.Constant),
                                            Chunk(c.p, Len(c.values) + 1)>>,
                   !.values = Append(c.values, value)]

\* The Value arm without the test of the pool's length
EmitValueUnchecked(c, value) ==
    IF FixedVecPush(c.values, value).ok
    THEN [c EXCEPT !.chunks = c.chunks \o <<Chunk(c.p, OpCode.Constant), Chunk(c.p, Len(c.values))>>,
                   !.values = FixedVecPush(c.values, value).vec]
    ELSE [c EXCEPT !.crash = "expect: fixed vec to not overflow after checking condition"]

\* The body of expression_statement's loop for one node.  c is the compiler:
\* [p, chunks, errs, values, had_err, crash].  The Value arm:
EmitValue(c, value) ==
    IF Len(c.values) = STACK_MAX
    THEN [c EXCEPT !.chunks = Append(c.chunks, Chunk(c.p, OpCode.Constant)),
                   !.errs = Append(c.errs, CompileErr("TooManyValues", "", c.p))]
    ELSE IF FixedVecPush(c.values, value).ok
    THEN [c EXCEPT !.chunks = c.chunks \o <<Chunk(c.p, OpCode.Constant), Chunk(c.p, Len(c.values))>>,
                   !.values = FixedVecPush(c.values, value).vec]
    ELSE [c EXCEPT !.crash = "expect: fixed vec to not overflow after checking condition"]

EmitNode(c, node) ==
    CASE node.node = "Operator" ->
            IF to_bytecodes(node.op) = <<>>
            THEN [c EXCEPT !.crash = "todo!() in Operator::to_bytecodes"]
            ELSE [c EXCEPT !.chunks = Append(c.chunks, Chunk(c.p, to_bytecodes(node.op)[1]))]
      [] node.node = "Value" -> EmitValue(c, node.value)
      [] OTHER ->
            [c EXCEPT !.errs = Append(c.errs, CompileErr("UnexpectedToken", node.actual, c.p)),
                      !.had_err = TRUE]

RECURSIVE EmitAll(_, _)
EmitAll(c, nodes) ==
    IF nodes = <<>> \/ c.crash # "" THEN c
    ELSE EmitAll(EmitNode(c, Head(nodes)), Tail(nodes))

\* expression_statement's loop over the nodes of the parsed expression
Emit(c, expr) ==
    EmitAll([c EXCEPT !.p = expr.p, !.had_err = FALSE], dfs_postorder(expr.tree))

\* Compiler::expression_statement: the compiler afterwards; had_err is the Err(()) result
expression_statement(c) == Emit(c, expression(c.p))

\* The tail of both statement forms once the expression is compiled (c1): its
\* Err is passed on, else the `;` is required, with the opcode `before` or
\* `after` it
Terminated(c1, before, after) ==
    IF c1.crash # "" \/ c1.had_err THEN [c |-> c1, result |-> "Err"]
    ELSE IF ~Matches(c1.p, "Semicolon")
    THEN [c |-> [c1 EXCEPT !.chunks = c1.chunks \o [i \in 1..Len(before) |-> Chunk(c1.p, before[i])],
                           !.errs = Append(c1.errs, CompileErr("MissingSemicolon", "", c1.p))],
          result |-> "Err"]
    ELSE [c |-> [c1 EXCEPT !.p = next_token(c1.p),
                           !.chunks = c1.chunks
                               \o [i \in 1..Len(before) |-> Chunk(c1.p, before[i])]
                               \o [i \in 1..Len(after) |-> Chunk(next_token(c1.p), after[i])]],
          result |-> "Ok"]

\* A statement that, when it fails, leaves the tokens where it found them
Rewound(r, p) == IF r.result = "Err" /\ r.c.crash = "" THEN [r EXCEPT !.c.p = p] ELSE r

statement_rewinding_on_error(c) ==
    IF Peek(c.p) \in {"Class", "Fun", "If"}
    THEN [c |-> [c EXCEPT !.p = next_token(c.p), !.crash = "todo!() in Compiler::statement"],
          result |-> "Err"]
    ELSE IF Matches(c.p, "Print")
    THEN Rewound(Terminated(expression_statement([c EXCEPT !.p = next_token(c.p)]),
                            <<OpCode["Print"]>>, <<>>), c.p)
    ELSE Rewound(Terminated(expression_statement(c), <<>>, <<OpCode.Pop>>), c.p)

\* A statement that emits the Pop of an expression statement after a print too
statement_popping_after_print(c) ==
    IF Peek(c.p) \in {"Class", "Fun", "If"}
    THEN [c |-> [c EXCEPT !.p = next_token(c.p), !.crash = "todo!() in Compiler::statement"],
          result |-> "Err"]
    ELSE IF Matches(c.p, "Print")
    THEN Terminated(expression_statement([c EXCEPT !.p = next_token(c.p)]),
                    <<OpCode["Print"]>>, <<OpCode.Pop>>)
    ELSE Terminated(expression_statement(c), <<>>, <<OpCode.Pop>>)

\* Compiler::statement: [c, result], result "Ok" or "Err" (c.crash set on a todo!())
statement(c) ==
    IF Peek(c.p) \in {"Class", "Fun", "If"}
    THEN [c |-> [c EXCEPT !.p = next_token(c.p), !.crash = "todo!() in Compiler::statement"],
          result |-> "Err"]
    ELSE IF Matches(c.p, "Print")
    THEN Terminated(expression_statement([c EXCEPT !.p = next_token(c.p)]),
                    <<OpCode["Print"]>>, <<>>)
    ELSE Terminated(expression_statement(c), <<>>, <<OpCode.Pop>>)

\* The tokens that stop panic_mode_recovery
StatementStarts == {"Class", "Fun", "Var", "For", "If", "Print", "Return"}

\* Compiler::panic_mode_recovery: match_tokens_while(not a statement start)
RECURSIVE panic_mode_recovery(_)
panic_mode_recovery(p) ==
    IF p.pos < Len(tokens) /\ tokens[p.pos + 1].kind \notin StatementStarts
    THEN panic_mode_recovery(next_token(p))
    ELSE p


(***************************************************************************)
(* The virtual machine (vm.rs).  One iteration of VM::run's loop works on  *)
(* a record m = [ip, stack, strings, out, result, err, crash]: stack is    *)
(* runtime_values (bottom first), strings is runtime_strings, out the      *)
(* lines printed, result/err the value VM::run returns once it does, and  *)
(* crash the Rust panic that aborted it.                                   *)
(***************************************************************************)
ITER_MAX == 1000000

NoErr == [kind |-> "", line |-> 0]

Line(from, text) == [from |-> from, text |-> text]

Top(m) == m.stack[Len(m.stack)]
Panicked(m, msg) == [m EXCEPT !.crash = msg]

\* VM::pop_value, then `f` on the machine without the value and the value
WithPop(m, f(_, _)) ==
    IF m.stack = <<>> THEN Panicked(m, "expect: Popped value to be populated.")
    ELSE f([m EXCEPT !.stack = SubSeq(m.stack, 1, Len(m.stack) - 1)], Top(m))

\* VM::push_value (FixedVec::push followed by expect)
push_value(m, val) ==
    IF FixedVecPush(m.stack, val).ok THEN [m EXCEPT !.stack = FixedVecPush(m.stack, val).vec]
    ELSE Panicked(m, "expect: Runtime to never have too many values")

\* return Err(self.runtime_err(kind)): the line is that of code[ip]
runtime_err(m, kind) ==
    [m EXCEPT !.result = "RuntimeErr", !.err = [kind |-> kind, line |-> chunks[m.ip + 1].line]]

\* the `self.ip += 1` that ends an arm, reached unless the arm returned or panicked
Advance(m) == IF m.result = "none" /\ m.crash = "" THEN [m EXCEPT !.ip = m.ip + 1] ELSE m

\* *a == *b on two Objects: the payload pointers are compared
ObjectEq(a, b) == a.tbl = b.tbl /\ a.s = b.s

\* OpCode::Equal
ExecEqual(m) ==
    Advance(WithPop(m, LAMBDA m1, b :
        CASE b.type = "Nil" ->
                WithPop(m1, LAMBDA m2, a : push_value(m2, BooleanValue(a.type = "Nil")))
          [] b.type = "Boolean" ->
                WithPop(m1, LAMBDA m2, a :
                    push_value(m2, BooleanValue(a.type = "Boolean" /\ a.n = b.n)))
          [] b.type = "Number" ->
                WithPop(m1, LAMBDA m2, a :
                    push_value(m2, BooleanValue(a.type = "Number" /\ NumEq(a, b))))
          [] OTHER ->
                WithPop(m1, LAMBDA m2, a :
                    IF a.type = "Object" THEN push_value(m2, BooleanValue(ObjectEq(a, b)))
                    ELSE m2)))

\* The shape shared by Greater, Less, Subtract, Multiply and Divide: both
\* operands must be Numbers; a is not popped when b is none.
ExecNumeric(m, errKind, result(_, _)) ==
    Advance(WithPop(m, LAMBDA m1, b :
        IF b.type = "Number"
        THEN WithPop(m1, LAMBDA m2, a :
                 IF a.type = "Number" THEN push_value(m2, result(a, b))
                 ELSE runtime_err(m2, errKind))
        ELSE runtime_err(m1, errKind)))

\* A Greater that compares the top of the stack with the value below it
ExecGreaterReversed(m) ==
    ExecNumeric(m, "ComparisonOnNonNumber", LAMBDA a, b : BooleanValue(NumGt(b, a)))

\* OpCode::Greater, OpCode::Less
ExecGreater(m) ==
    ExecNumeric(m, "ComparisonOnNonNumber", LAMBDA a, b : BooleanValue(NumGt(a, b)))
ExecLess(m) ==
    ExecNumeric(m, "ComparisonOnNonNumber", LAMBDA a, b : BooleanValue(NumLt(a, b)))

\* A Subtract that takes the top of the stack for its left operand
ExecSubtractReversed(m) ==
    ExecNumeric(m, "ArithmeticOnNonNumber", LAMBDA a, b : NumSub(b, a))

\* OpCode::Subtract, OpCode::Multiply, OpCode::Divide
ExecSubtract(m) == ExecNumeric(m, "ArithmeticOnNonNumber", LAMBDA a, b : NumSub(a, b))
ExecMultiply(m) == ExecNumeric(m, "ArithmeticOnNonNumber", LAMBDA a, b : NumMul(a, b))
ExecDivide(m) == ExecNumeric(m, "ArithmeticOnNonNumber", LAMBDA a, b : NumDiv(a, b))

\* A concatenation that always makes a runtime string of its result
ConcatenateUninterned(m, a, b) ==
    push_value([m EXCEPT !.strings = m.strings \cup {a.s \o b.s}],
               StringObject("runtime", a.s \o b.s))

\* OpCode::Add, the String arm once both operands are strings: the result is
\* the compiled string of that text if there is one, else a runtime string
Concatenate(m, a, b) ==
    LET new_str == a.s \o b.s IN
    IF new_str \in compiled_strings
    THEN push_value(m, StringObject("compiled", new_str))
    ELSE push_value([m EXCEPT !.strings = m.strings \cup {new_str}],
                    StringObject("runtime", new_str))

\* OpCode::Add
ExecAdd(m) ==
    Advance(WithPop(m, LAMBDA m1, b :
        CASE b.type = "Number" ->
                WithPop(m1, LAMBDA m2, a :
                    IF a.type = "Number" THEN push_value(m2, NumAdd(a, b))
                    ELSE runtime_err(m2, "ArithmeticOnNonNumber"))
          [] b.type = "Object" ->
                WithPop(m1, LAMBDA m2, a :
                    IF a.type = "Object" THEN Concatenate(m2, a, b) ELSE m2)
          [] OTHER -> runtime_err(m1, "ArithmeticOnNonNumber")))

\* A Not by truthiness: every Number and Object counts as true
ExecNotTruthy(m) ==
    Advance(WithPop(m, LAMBDA m1, v :
        CASE v.type = "Nil" -> push_value(m1, BooleanValue(TRUE))
          [] v.type = "Boolean" -> push_value(m1, BooleanValue(v.n = 0))
          [] OTHER -> push_value(m1, BooleanValue(FALSE))))

\* OpCode::Not
ExecNot(m) ==
    Advance(WithPop(m, LAMBDA m1, v :
        CASE v.type = "Nil" -> push_value(m1, BooleanValue(TRUE))
          [] v.type = "Boolean" -> push_value(m1, BooleanValue(v.n = 0))
          [] v.type = "Number" -> runtime_err(m1, "BooleanOperationOnNumber")
          [] OTHER -> runtime_err(m1, "BooleanOperationOnObject")))

\* OpCode::Negate
ExecNegate(m) ==
    Advance(WithPop(m, LAMBDA m1, v :
        IF v.type = "Number" THEN push_value(m1, NumNeg(v))
        ELSE runtime_err(m1, "ArithmeticOnNonNumber")))

\* OpCode::Pop
ExecPop(m) == Advance(WithPop(m, LAMBDA m1, v : m1))

\* A Print that pops its operand and writes nothing
ExecPrintSilent(m) == Advance(WithPop(m, LAMBDA m1, v : m1))

\* OpCode::Print
ExecPrint(m) ==
    Advance(WithPop(m, LAMBDA m1, v :
        IF to_string(v).ok THEN [m1 EXCEPT !.out = Append(m1.out, Line("Print", to_string(v).text))]
        ELSE Panicked(m1, "todo!() in Value::to_string")))

\* VM::read_constant, entered with ip on the operand byte
read_constant(m) ==
    IF m.ip + 1 > Len(chunks) THEN Panicked(m, "index out of bounds: code[ip]")
    ELSE LET index == chunks[m.ip + 1].op IN
         IF index + 1 > Len(values)
         THEN Panicked(m, "expect: Value pointed to to be populated.")
         ELSE LET value == ValueClone(values[index + 1]) IN
              IF ~value.ok THEN Panicked(m, "todo!() in Value::clone")
              ELSE IF value.value.type = "Object"
              THEN IF value.value.s \notin compiled_strings
                   THEN Panicked(m, "expect: compiled string to be available at runtime")
                   ELSE Advance(push_value(m, StringObject("compiled", value.value.s)))
              ELSE Advance(push_value(m, value.value))

\* OpCode::Constant
ExecConstant(m) == read_constant([m EXCEPT !.ip = m.ip + 1])

\* The arms of `match op` that the VM implements
Implemented ==
    {"Constant", "Pop", "Equal", "Greater", "Less", "Add", "Subtract", "Multiply",
     "Divide", "Not", "Negate", "Print", "Return"}

\* match op { ... }
Execute(m, op) ==
    CASE op = "Constant" -> ExecConstant(m)
      [] op = "Pop" -> ExecPop(m)
      [] op = "Equal" -> ExecEqual(m)
      [] op = "Greater" -> ExecGreater(m)
      [] op = "Less" -> ExecLess(m)
      [] op = "Add" -> ExecAdd(m)
      [] op = "Subtract" -> ExecSubtract(m)
      [] op = "Multiply" -> ExecMultiply(m)
      [] op = "Divide" -> ExecDivide(m)
      [] op = "Not" -> ExecNot(m)
      [] op = "Negate" -> ExecNegate(m)
      [] op = "Print" -> ExecPrint(m)
      [] op = "Return" -> [m EXCEPT !.result = "Ok"]
      [] OTHER -> Panicked(m, "todo!() in VM::run")

\* The body of VM::run's for loop: fetch, decode, execute
Iteration(m) ==
    IF m.ip + 1 > Len(chunks) THEN Panicked(m, "index out of bounds: code[ip]")
    ELSE LET op == try_from(chunks[m.ip + 1].op) IN
         IF op = "Err"
         THEN [m EXCEPT !.result = "Panic",
                        !.out = Append(m.out, Line("decode", "Received invalid opcode"))]
         ELSE Execute(m, op)

\* An exit code that takes the iteration ceiling for a failure
ExitCodeFailingAtCeiling(result) ==
    CASE result = "Ok" -> 0
      [] result = "RuntimeErr" -> 70
      [] OTHER -> 1

\* run(), lines 23-41: the exit code for what VM::run returned
ExitCodeOf(result) ==
    CASE result = "Ok" -> 0
      [] result = "RuntimeErr" -> 70
      [] result = "Panic" -> 1
      [] OTHER -> 0

\* run(), lines 26-38: the line printed for an Err
ExitLine(result) ==
    CASE result = "RuntimeErr" -> <<Line("RuntimeErr", vm_err.kind)>>
      [] result = "Panic" -> <<Line("Panic", "VM internally panicked")>>
      [] result = "OutOfIterations" -> <<Line("OutOfIterations", "VM exceeded 1 million operations")>>
      [] OTHER -> <<>>

\* A result that hands the bytecode out whatever was recorded
CompileOutcomeIgnoringErrs(recorded) == "Ok"

\* Compiler::compile, lines 89-93
CompileOutcome(recorded) == IF Len(recorded) > 0 THEN "Err" ELSE "Ok"

\* The third component run() hands to VM::new, which compile() does not
\* return in compiler.rs: the texts of the string constants of the pool.
CompiledStringsOf(pool) == {pool[i].s : i \in {j \in 1..Len(pool) : pool[j].type = "Object"}}


(***************************************************************************)
(* run(): the actions.  pc is "start" (run called), "compiling" (in the    *)
(* loop of Compiler::compile), "recovering" (a statement returned Err),    *)
(* "compiled" (compile returned), "running" (in VM::run's loop), "vm_done" *)
(* (VM::run returned), "exited" (run returned), "crashed" (a Rust panic    *)
(* aborted the process, exit status 101), "idle" (no run).                 *)
(***************************************************************************)
Compiler == [p |-> [pos |-> pos, previous |-> previous, current |-> current],
             chunks |-> chunks, errs |-> errs, values |-> values,
             had_err |-> FALSE, crash |-> ""]

Machine == [ip |-> ip, stack |-> runtime_values, strings |-> runtime_strings,
            out |-> output, result |-> vm_result, err |-> vm_err, crash |-> ""]

VmIdle ==
    /\ ip = 0
    /\ runtime_values = <<>>
    /\ runtime_strings = {}
    /\ compiled_strings = {}
    /\ iterations = 0
    /\ vm_result = "none"
    /\ vm_err = NoErr
    /\ output = <<>>

CompilerIdle ==
    /\ tokens = <<>>
    /\ pos = 0
    /\ previous = 0
    /\ current = 0
    /\ chunks = <<>>
    /\ errs = <<>>
    /\ values = <<>>
    /\ compile_result = "none"

\* run(program) is called with a source of the set S
RunOn(S) ==
    /\ pc = "start"
    /\ TokenizerIdle
    /\ src \in S
    /\ CompilerIdle
    /\ VmIdle
    /\ exit_code = -1
    /\ crash = ""

\* compile(), lines 14-39: drain the token stream; on any lexical error return
\* the collected errors, else hand the tokens to a new Compiler
Tokenize ==
    /\ pc = "start"
    /\ LET lexErrs == LexErrsFrom(src) IN
       IF lexErrs # <<>>
       THEN /\ errs' = CollectedLexErrs(lexErrs)
            /\ compile_result' = "Err"
            /\ pc' = "compiled"
            /\ UNCHANGED tokens
       ELSE /\ tokens' = TokensFrom(src)
            /\ pc' = "compiling"
            /\ UNCHANGED <<errs, compile_result>>
    /\ UNCHANGED <<pos, previous, current, chunks, values>>
    /\ UNCHANGED <<hvars, fvars, tvars, src, vmvars, exit_code, crash>>

\* One round of the loops of Compiler::compile and Compiler::declaration:
\* a token is left, statement() is called and what it did is stored
StoreCompiler(r) ==
    /\ pos' = r.c.p.pos
    /\ previous' = r.c.p.previous
    /\ current' = r.c.p.current
    /\ chunks' = r.c.chunks
    /\ errs' = r.c.errs
    /\ values' = r.c.values
    /\ crash' = r.c.crash
    /\ pc' = IF r.c.crash # "" THEN "crashed"
             ELSE IF r.result = "Err" THEN "recovering" ELSE "compiling"
    /\ exit_code' = IF r.c.crash # "" THEN 101 ELSE exit_code

Statement ==
    /\ pc = "compiling"
    /\ pos < Len(tokens)
    /\ StoreCompiler(statement(Compiler))
    /\ UNCHANGED <<hvars, fvars, tvars, src, tokens, compile_result, vmvars>>

\* A recovery that stops at a token of its choice
RecoverAnywhere ==
    /\ pc = "recovering"
    /\ pos' \in pos..Len(tokens)
    /\ pc' = "compiling"
    /\ UNCHANGED <<hvars, fvars, tvars, src, tokens, previous, current, chunks, errs, values,
                   compile_result, vmvars, exit_code, crash>>

\* Err(()) => self.panic_mode_recovery()
Recover ==
    /\ pc = "recovering"
    /\ LET p == panic_mode_recovery(Compiler.p) IN
       /\ pos' = p.pos
       /\ previous' = p.previous
       /\ current' = p.current
    /\ pc' = "compiling"
    /\ UNCHANGED <<hvars, fvars, tvars, src, tokens, chunks, errs, values, compile_result, vmvars,
                   exit_code, crash>>

\* Compiler::compile, lines 87-93: no token is left; the Return is pushed and
\* the result is Err(errs) or Ok((chunks, values))
Finish ==
    /\ pc = "compiling"
    /\ pos = Len(tokens)
    /\ compile_result' = CompileOutcome(errs)
    /\ chunks' = Append(chunks, Chunk(Compiler.p, OpCode.Return))
    /\ pc' = "compiled"
    /\ UNCHANGED <<hvars, fvars, tvars, src, tokens, pos, previous, current, errs, values, vmvars,
                   exit_code, crash>>

\* run(), lines 14-23: on Err print the errors and return 65, on Ok build the VM
Dispatch ==
    /\ pc = "compiled"
    /\ IF compile_result = "Err"
       THEN /\ output' = [i \in 1..Len(errs) |-> Line("CompileErr", errs[i].kind)]
            /\ exit_code' = 65
            /\ pc' = "exited"
            /\ UNCHANGED <<ip, runtime_values, runtime_strings, compiled_strings>>
       ELSE /\ ip' = 0
            /\ runtime_values' = <<>>
            /\ runtime_strings' = {}
            /\ compiled_strings' = CompiledStringsOf(values)
            /\ pc' = "running"
            /\ UNCHANGED <<output, exit_code>>
    /\ UNCHANGED <<hvars, fvars, tvars, src, cvars, iterations, vm_result, vm_err, crash>>

StoreMachine(m) ==
    /\ ip' = m.ip
    /\ runtime_values' = m.stack
    /\ runtime_strings' = m.strings
    /\ output' = m.out
    /\ vm_result' = m.result
    /\ vm_err' = m.err
    /\ crash' = m.crash
    /\ pc' = IF m.crash # "" THEN "crashed"
             ELSE IF m.result # "none" THEN "vm_done" ELSE "running"
    /\ exit_code' = IF m.crash # "" THEN 101 ELSE exit_code

\* A loop without the ceiling on its iterations
StepUnbounded ==
    /\ pc = "running"
    /\ iterations' = iterations + 1
    /\ StoreMachine(Iteration(Machine))
    /\ UNCHANGED <<hvars, fvars, tvars, src, cvars, compiled_strings>>

\* VM::run: the loop ends after ITER_MAX iterations, else one more is made
Step ==
    /\ pc = "running"
    /\ IF iterations >= ITER_MAX
       THEN /\ vm_result' = "OutOfIterations"
            /\ pc' = "vm_done"
            /\ UNCHANGED <<ip, runtime_values, runtime_strings, iterations, vm_err, output,
                           exit_code, crash>>
       ELSE /\ iterations' = iterations + 1
            /\ StoreMachine(Iteration(Machine))
    /\ UNCHANGED <<hvars, fvars, tvars, src, cvars, compiled_strings>>

\* run(), lines 23-41: map what VM::run returned to the exit code
Exit ==
    /\ pc = "vm_done"
    /\ exit_code' = ExitCodeOf(vm_result)
    /\ output' = output \o ExitLine(vm_result)
    /\ pc' = "exited"
    /\ UNCHANGED <<hvars, fvars, tvars, src, cvars, ip, runtime_values, runtime_strings, compiled_strings,
                   iterations, vm_result, vm_err, crash>>

Next == Tokenize \/ Statement \/ Recover \/ Finish \/ Dispatch \/ Step \/ Exit

(***************************************************************************)
(* The sources run() is exercised with                                     *)
(***************************************************************************)
SeqsUpTo(S, n) == UNION {[1..k -> S] : k \in 0..n}

\* every source of at most MaxLen lexemes over these
CoreAlphabet ==
    {Lx("Print"), Lx("Semicolon"), NumLx(1), StrLx("a"), Lx("Plus"), Lx("Bang"),
     Lx("LeftParen"), Lx("RightParen"), Lx("And"), Lx("Class"), Lx("InvalidChar")}

Literals ==
    {Lx("Nil"), Lx("True"), Lx("False"), NumLx(0), NumLx(1), NumLx(2), StrLx("a")}
BinaryOperators ==
    {Lx("Minus"), Lx("Plus"), Lx("Slash"), Lx("Star"), Lx("BangEqual"), Lx("EqualEqual"),
     Lx("Greater"), Lx("GreaterEqual"), Lx("Less"), Lx("LessEqual"), Lx("And"), Lx("Or")}
UnaryOperators == {Lx("Bang"), Lx("Minus")}

\* every statement with one operator, over all operators and literal types
OperatorPrograms ==
    LET exprs == {<<a, o, b>> : a \in Literals, o \in BinaryOperators, b \in Literals}
                 \cup {<<o, a>> : o \in UnaryOperators, a \in Literals}
    IN  {e \o <<Lx("Semicolon")>> : e \in exprs}
        \cup {<<Lx("Print")>> \o e \o <<Lx("Semicolon")>> : e \in exprs}

Nesting(lexemes) == Cardinality({i \in 1..Len(lexemes) : lexemes[i].kind = "LeftParen"})

\* an expression statement without its `;`, then each token that starts a
\* statement
RecoveryPrograms == {<<NumLx(1), NumLx(1), Lx(start)>> : start \in StatementStarts}

Sources ==
    {s \in SeqsUpTo(CoreAlphabet, MaxLen) : Nesting(s) <= MaxNest}
    \cup OperatorPrograms \cup RecoveryPrograms

\* Statements over one expression with two operators of the levels Equality
\* to Unary, with and without a parenthesized group; the operands differ, so
\* the emitted order shows
LevelOperators ==
    {Lx("Minus"), Lx("Plus"), Lx("Slash"), Lx("Star"), Lx("BangEqual"), Lx("EqualEqual"),
     Lx("Greater"), Lx("GreaterEqual"), Lx("Less"), Lx("LessEqual")}

Expressions ==
    {<<NumLx(1), o1, NumLx(2), o2, NumLx(3)>> : o1 \in LevelOperators, o2 \in LevelOperators}
    \cup {<<Lx("LeftParen"), NumLx(1), o1, NumLx(2), Lx("RightParen"), o2, NumLx(3)>> :
             o1 \in LevelOperators, o2 \in LevelOperators}
    \cup {<<NumLx(1), o1, Lx("LeftParen"), NumLx(2), o2, NumLx(3), Lx("RightParen")>> :
             o1 \in LevelOperators, o2 \in LevelOperators}
    \cup {<<u, NumLx(1), o, NumLx(2)>> : u \in UnaryOperators, o \in LevelOperators}
    \cup {<<NumLx(1), o, u, NumLx(2)>> : u \in UnaryOperators, o \in LevelOperators}
    \cup {<<u1, u2, NumLx(1)>> : u1 \in UnaryOperators, u2 \in UnaryOperators}
    \cup {<<u, Lx("LeftParen"), NumLx(1), o, NumLx(2), Lx("RightParen")>> :
             u \in UnaryOperators, o \in LevelOperators}

ExpressionPrograms ==
    {e \o <<Lx("Semicolon")>> : e \in Expressions}
    \cup {<<Lx("Print")>> \o e \o <<Lx("Semicolon")>> : e \in Expressions}

\* print statements over !=, <= and >= between numbers: literals, 0/0 (NaN)
\* and 1/0 (inf)
OperandForms ==
    {<<NumLx(0)>>, <<NumLx(1)>>, <<NumLx(2)>>, <<NumLx(0), Lx("Slash"), NumLx(0)>>,
     <<NumLx(1), Lx("Slash"), NumLx(0)>>}

Synthesized == {Lx("BangEqual"), Lx("LessEqual"), Lx("GreaterEqual")}

ComparisonPrograms ==
    {<<Lx("Print")>> \o a \o <<o>> \o b \o <<Lx("Semicolon")>> :
        a \in OperandForms, o \in Synthesized, b \in OperandForms}

HeapIdle == HeapNew /\ FixedVecNew

InitExpr ==
    RunOn(ExpressionPrograms \cup ComparisonPrograms \cup RecoveryPrograms) /\ HeapIdle

SpecExpr == InitExpr /\ [][Next]_vars

Init == RunOn(Sources) /\ HeapIdle

Spec == Init /\ [][Next]_vars

(***************************************************************************)
(* The heap on its own                                                     *)
(***************************************************************************)
PipelineIdle ==
    /\ pc = "idle"
    /\ TokenizerIdle
    /\ src = <<>>
    /\ CompilerIdle
    /\ VmIdle
    /\ exit_code = -1
    /\ crash = ""

InitHeap == HeapNew /\ FixedVecNew /\ PipelineIdle

(***************************************************************************)
(* The FixedVec on its own: any sequence of push and pop                   *)
(***************************************************************************)
InitFixedVec == FixedVecNew /\ HeapNew /\ PipelineIdle

Push == \E val \in PushedValues : push(val) /\ UNCHANGED <<hvars, tvars, pvars>>
Pop == pop /\ UNCHANGED <<hvars, tvars, pvars>>

NextFixedVec == Push \/ Pop

SpecFixedVec == InitFixedVec /\ [][NextFixedVec]_vars

Add == \E c \in HeapStrings : add(c) /\ UNCHANGED <<tvars, fvars, pvars>>
DropRef == \E c \in HeapStrings : drop_ref(c) /\ UNCHANGED <<tvars, fvars, pvars>>
CollectGarbage == collect_garbage /\ UNCHANGED <<tvars, fvars, pvars>>

NextHeap == Add \/ DropRef \/ CollectGarbage

SpecHeap == InitHeap /\ [][NextHeap]_vars


(***************************************************************************)
(* Long sources: n statements `1 ;` for n around STACK_MAX, then a tail,   *)
(* so that the constant pool fills up                                      *)
(***************************************************************************)
Repeat(unit, n) == [i \in 1..(n * Len(unit)) |-> unit[((i - 1) % Len(unit)) + 1]]

PoolTails ==
    {<<>>, <<NumLx(1)>>, <<NumLx(1), Lx("Plus"), NumLx(2), Lx("Semicolon")>>}

PoolSources ==
    {Repeat(<<NumLx(1), Lx("Semicolon")>>, n) \o tail :
        n \in (STACK_MAX - PoolSlack)..(STACK_MAX + PoolSlack), tail \in PoolTails}

InitPool == RunOn(PoolSources) /\ HeapIdle

SpecPool == InitPool /\ [][Next]_vars

(***************************************************************************)
(* Sources of several statements and lines: "NL" is a '\n' between two     *)
(* tokens                                                                  *)
(***************************************************************************)
LineAlphabet ==
    {Lx("NL"), Lx("Print"), NumLx(1), Lx("Plus"), Lx("Bang"), Lx("Semicolon")}

\* programs of statements that print a value or fail at run time
PrintStatements ==
    {<<Lx("Print"), NumLx(1), Lx("Semicolon")>>, <<Lx("Print"), Lx("Nil"), Lx("Semicolon")>>,
     <<Lx("Print"), Lx("Bang"), Lx("Nil"), Lx("Semicolon")>>,
     <<Lx("Bang"), NumLx(1), Lx("Semicolon")>>}

RECURSIVE Flatten(_)
Flatten(seqs) == IF seqs = <<>> THEN <<>> ELSE Head(seqs) \o Flatten(Tail(seqs))

PrintPrograms == {Flatten(program) : program \in SeqsUpTo(PrintStatements, MaxStatements)}

LineSources == SeqsUpTo(LineAlphabet, MaxLineLen) \cup PrintPrograms

InitLines == RunOn(LineSources) /\ HeapIdle

SpecLines == InitLines /\ [][Next]_vars

(***************************************************************************)
(* The VM met in the middle of an execution: one instruction (then Return) *)
(* about to be run on an arbitrary operand stack, at the start of the loop,*)
(* in its last iteration or with all its iterations used up.  Strings on the stack point into    *)
(* the tables as Constant and Add leave them.  The runtime table holds at  *)
(* most three strings here, below the size at which inserting into a      *)
(* HashSet moves its elements.                                             *)
(***************************************************************************)
\* VM.runtime_strings before the instruction: with and without the text an
\* Add of the drawn strings produces
DrawnRuntimeStrings == {{"b"}, {"b", "aa"}}

DrawnValues ==
    {NilValue, BooleanValue(TRUE), BooleanValue(FALSE), NumberValue(1), NumberValue(2),
     Num(1, 0), Num(0, 0),
     StringObject("compiled", "a"), StringObject("runtime", "b")}

\* every byte an instruction can be, valid (0..36) or not; Constant with its operand
DrawnCode ==
    {<<byte, OpCode.Return>> : byte \in (1..Len(OpCodeArms) + 1) \cup {255}}
    \cup {<<OpCode.Constant, 0, OpCode.Return>>}

InitVMWith(stacks) ==
    /\ pc = "running"
    /\ TokenizerIdle
    /\ src = <<>>
    /\ tokens = <<>>
    /\ pos = 0
    /\ previous = 0
    /\ current = 0
    /\ \E code \in DrawnCode : chunks = [i \in 1..Len(code) |-> [op |-> code[i], line |-> 0]]
    /\ errs = <<>>
    /\ values = <<NumberValue(1)>>
    /\ compile_result = "Ok"
    /\ ip = 0
    /\ runtime_values \in stacks
    /\ runtime_strings \in DrawnRuntimeStrings
    /\ compiled_strings = {"a", "ab"}
    /\ iterations \in {0, ITER_MAX - 1, ITER_MAX}
    /\ vm_result = "none"
    /\ vm_err = NoErr
    /\ output = <<>>
    /\ exit_code = -1
    /\ crash = ""
    /\ HeapIdle

InitVM == InitVMWith(SeqsUpTo(DrawnValues, MaxStack))

InitRun == Init \/ InitVM

SpecRun == InitRun /\ [][Next]_vars

\* The same with fewer starts, and the loop of VM::run going on as long as
\* it can: run() is sequential code on one thread.
InitRunFair ==
    \/ RunOn(SeqsUpTo(CoreAlphabet, MaxFairLen)) /\ HeapIdle
    \/ InitVMWith(SeqsUpTo(DrawnValues, MaxFairStack))

SpecRunFair == InitRunFair /\ [][Next]_vars /\ WF_vars(Step)

\* Short sources with the tokens that stop panic-mode recovery, and the loop
\* of Compiler::compile going on as long as it can: statement, recovery and
\* the end of compile are sequential code on one thread.
FairAlphabet ==
    {Lx("Print"), Lx("Semicolon"), NumLx(1), Lx("Plus"), Lx("Var"), Lx("Class"),
     Lx("RightParen")}

InitCompileFair == RunOn(SeqsUpTo(FairAlphabet, MaxFairTokens)) /\ HeapIdle

\* Weak fairness of Statement, with its enabling condition written out: a
\* statement attempt is possible exactly while tokens are left
StatementFair ==
    \/ []<>(~(pc = "compiling" /\ pos < Len(tokens)))
    \/ []<><<Statement>>_vars

SpecCompileFair ==
    InitCompileFair /\ [][Next]_vars
    /\ StatementFair /\ WF_vars(Recover) /\ WF_vars(Finish)

(***************************************************************************)
(* The tokenizer on its own: `for token_result in token_stream` of         *)
(* compile(), one call of next() at a time, over short texts               *)
(***************************************************************************)
\* an iterator that starts over once it has returned None
NextItemStartingOver ==
    /\ pc \in {"tokenizing", "tokenized"}
    /\ IF next(Tokenizer).item = None
       THEN /\ chars' = 0
            /\ current_position' = StartPosition
            /\ pc' = "tokenizing"
            /\ UNCHANGED stream
       ELSE /\ chars' = next(Tokenizer).t.chars
            /\ current_position' = next(Tokenizer).t.current_position
            /\ pc' = pc
            /\ stream' = Append(stream, next(Tokenizer).item)
    /\ UNCHANGED <<hvars, fvars, source, src, cvars, vmvars, exit_code, crash>>

\* one call of Iterator::next, before or after it has returned None
NextItem ==
    /\ pc \in {"tokenizing", "tokenized"}
    /\ chars' = next(Tokenizer).t.chars
    /\ current_position' = next(Tokenizer).t.current_position
    /\ IF next(Tokenizer).item = None
       THEN pc' = "tokenized" /\ UNCHANGED stream
       ELSE pc' = pc /\ stream' = Append(stream, next(Tokenizer).item)
    /\ UNCHANGED <<hvars, fvars, source, src, cvars, vmvars, exit_code, crash>>

\* a character of each class the tokenizer tells apart
LexAlphabet == {"1", ".", "a", "_", "\"", "\\", "/", "*", "\n", " ", "@", "+", "="}

\* the spelling of each keyword, alone, with one more character before or
\* after it, and cut short by one
KeywordSpellings ==
    ("And" :> <<"a", "n", "d">>)
    @@ ("Class" :> <<"c", "l", "a", "s", "s">>)
    @@ ("Else" :> <<"e", "l", "s", "e">>)
    @@ ("False" :> <<"f", "a", "l", "s", "e">>)
    @@ ("Fun" :> <<"f", "u", "n">>)
    @@ ("For" :> <<"f", "o", "r">>)
    @@ ("If" :> <<"i", "f">>)
    @@ ("Nil" :> <<"n", "i", "l">>)
    @@ ("Or" :> <<"o", "r">>)
    @@ ("Print" :> <<"p", "r", "i", "n", "t">>)
    @@ ("Return" :> <<"r", "e", "t", "u", "r", "n">>)
    @@ ("Super" :> <<"s", "u", "p", "e", "r">>)
    @@ ("This" :> <<"t", "h", "i", "s">>)
    @@ ("True" :> <<"t", "r", "u", "e">>)
    @@ ("Var" :> <<"v", "a", "r">>)
    @@ ("While" :> <<"w", "h", "i", "l", "e">>)
Spellings == {KeywordSpellings[kind] : kind \in DOMAIN KeywordSpellings}
Affixes == {"x", "X", "_", "1", " ", "+", "."}
KeywordTexts ==
    Spellings
    \cup {<<a>> \o k : a \in Affixes, k \in Spellings}
    \cup {k \o <<a>> : a \in Affixes, k \in Spellings}
    \cup {SubSeq(k, 1, Len(k) - 1) : k \in Spellings}
    \cup {<<"P", "r", "i", "n", "t">>, <<"p", "r", "i", "n", "t", "p", "r", "i", "n", "t">>}

\* the characters of a comment, in texts a little longer
CommentAlphabet == {"/", "*", "\n", "a"}
CommentTexts == UNION {[1..k -> CommentAlphabet] : k \in (MaxChars + 1)..MaxComment}

\* each whitespace character and some characters that start no token,
\* between two tokens
BetweenTokens == AsciiWhitespace \cup {"@", "#", "$", "\\", "?", "~", "'"}
SeparatorTexts == {<<"a", c, "a">> : c \in BetweenTokens}

\* each token of one character alone, before an '=' and twice
OperatorTexts ==
    UNION {{<<c>>, <<c, "=">>, <<c, c>>} : c \in DOMAIN SingleChar \cup DOMAIN WithEqual}

LexTexts == SeqsUpTo(LexAlphabet, MaxChars) \cup KeywordTexts \cup CommentTexts
            \cup SeparatorTexts \cup OperatorTexts

InitLex ==
    /\ pc = "tokenizing"
    /\ source \in LexTexts
    /\ chars = 0
    /\ current_position = StartPosition
    /\ stream = <<>>
    /\ src = <<>>
    /\ CompilerIdle
    /\ VmIdle
    /\ exit_code = -1
    /\ crash = ""
    /\ HeapIdle

NextLex == NextItem

SpecLex == InitLex /\ [][NextLex]_vars

\* The same over shorter texts, with next() called as long as a call changes
\* anything: the loop of compile() asks for the next item until it gets None.
InitLexFair == InitLex /\ Len(source) <= MaxFairChars

SpecLexFair == InitLexFair /\ [][NextLex]_vars /\ WF_vars(NextItem)

(***************************************************************************)
(* run() on texts: `print n;` for number literals n, with and without      *)
(* the `;`                                                                 *)
(***************************************************************************)
LiteralDigits == {"0", "1", "5"}
DigitRuns == UNION {[1..k -> LiteralDigits] : k \in 1..MaxDigits}

\* a literal of more digits than f64::MAX has
HugeLiteral == [i \in 1..(F64_MAX_10_EXP + 2) |-> IF i = 1 THEN "1" ELSE "0"]

NumberLiterals ==
    DigitRuns \cup {w \o <<".">> \o f : w \in DigitRuns, f \in DigitRuns} \cup {HugeLiteral}

PrintOf(literal) == KeywordSpellings["Print"] \o <<" ">> \o literal
PrintNumberTexts == {PrintOf(n) \o <<";">> : n \in NumberLiterals}
Texts == PrintNumberTexts \cup {PrintOf(n) : n \in NumberLiterals}

\* run(program) is called with a text of the set S
RunOnText(S) ==
    /\ pc = "start"
    /\ source \in S
    /\ chars = 0
    /\ current_position = StartPosition
    /\ stream = <<>>
    /\ src = Lexemes
    /\ CompilerIdle
    /\ VmIdle
    /\ exit_code = -1
    /\ crash = ""

InitText == RunOnText(Texts) /\ HeapIdle

SpecText == InitText /\ [][Next]_vars

(***************************************************************************)
(* Claims about the heap (SpecHeap)                                        *)
(***************************************************************************)
Elems(list) == {list[i] : i \in 1..Len(list)}

\* C2: collect_garbage never removes an object that is still referenced from
\* outside the heap (strong count above NUM_INTERNAL_REFS): every object a
\* handle was held on when the sweep ran is, if it was in the owning list
\* before, still in the list after, and still in the intern set.
C2_GcKeepsReferenced ==
    gc_log.ran =>
        \A c \in gc_log.live :
            /\ c \in Elems(gc_log.before) => c \in Elems(gc_log.after)
            /\ c \in gc_log.interned

\* C2's case: a sweep that met a referenced object in the list, kept it, and
\* unlinked an unreferenced one
C2_Witness ==
    /\ gc_log.ran
    /\ gc_log.live \cap Elems(gc_log.before) # {}
    /\ Len(gc_log.after) < Len(gc_log.before)

\* C10: an object no longer referenced from outside the heap is reclaimed by
\* collect_garbage: after the sweep it is neither in the owning list nor in
\* the intern set.
C10_GcReclaimsUnreferenced ==
    gc_log.ran =>
        \A c \in HeapStrings \ gc_log.live :
            c \notin Elems(gc_log.after) /\ c \notin gc_log.interned

\* C10's case: a sweep that met an unreferenced object in the list
C10_Witness ==
    /\ gc_log.ran
    /\ Elems(gc_log.before) \ gc_log.live # {}

\* the nodes of the owning list that hold content c
NodesOf(c) == {i \in 1..Len(first_obj) : first_obj[i] = c}

\* the references the heap itself holds to content c: its list nodes and its
\* entry of the intern set
InternalRefs(c) == Cardinality(NodesOf(c)) + (IF c \in objs THEN 1 ELSE 0)

\* C35: after any sequence of add and collect_garbage calls the owning list
\* and the intern set contain exactly the same objects (every object of the
\* set has a node in the list, every node's object is in the set), so each
\* heap-owned object has exactly NUM_INTERNAL_REFS internal references.
C35_ListAndSetAgree ==
    /\ objs = Elems(first_obj)
    /\ \A c \in objs \cup Elems(first_obj) : InternalRefs(c) = NUM_INTERNAL_REFS

\* C35's case: add, then collect_garbage with the handle still held, then
\* with the handle dropped: the sweep has unlinked a node
C35_Witness ==
    /\ gc_log.ran
    /\ Len(gc_log.after) < Len(gc_log.before)
    /\ \E c \in objs : InternalRefs(c) = 1

\* C11: after any sequence of add and collect_garbage calls the heap holds at
\* most one object per distinct string content (one node of the owning list
\* at most, every node's content in the intern set), and adding a content
\* the heap already holds creates no object: list and intern set stay as
\* they are and the caller gets one more handle on the interned allocation.
C11_AddInterns ==
    [][/\ \A c \in HeapStrings : Cardinality(NodesOf(c))' <= 1
       /\ Elems(first_obj)' \subseteq objs'
       /\ \A c \in objs :
            ext_refs'[c] > ext_refs[c] =>
                /\ first_obj' = first_obj
                /\ objs' = objs
                /\ ext_refs'[c] = ext_refs[c] + 1]_vars

\* C11's case: a content added twice, swept out of the owning list in
\* between and still interned, its handle held by the caller
C11_Witness ==
    /\ gc_log.ran
    /\ \E c \in objs : ext_refs[c] > 0 /\ NodesOf(c) = {}
    /\ \E c \in objs : ext_refs[c] = MaxRefs /\ Cardinality(NodesOf(c)) = 1

\* the heap is as the last collect_garbage left it
PostSweep ==
    /\ gc_log.ran
    /\ first_obj = gc_log.after
    /\ objs = gc_log.interned
    /\ ext_refs = gc_log.refs

\* C21: a collect_garbage that follows a collect_garbage, with no add and
\* no change of the external references in between, changes nothing: the
\* owning list, the intern set and every reference count stay as the first
\* sweep left them.
C21_SecondSweepChangesNothing ==
    [][(PostSweep /\ ext_refs' = ext_refs) =>
          /\ first_obj' = first_obj
          /\ objs' = objs
          /\ \A c \in HeapStrings : strong_count(c)' = strong_count(c)]_vars

\* C21's case: a second sweep has run on a heap from which the first one
\* unlinked an object and in which it kept another
C21_Witness ==
    /\ PostSweep
    /\ gc_log.before = gc_log.after
    /\ first_obj # <<>>
    /\ objs \ Elems(first_obj) # {}

\* C22: one collect_garbage pass goes over the whole owning list: it unlinks
\* exactly the objects whose strong count was NUM_INTERNAL_REFS and keeps all
\* the others in their order, so that straight after the pass no object of
\* the list has that count.
C22_SweepUnlinksExactlyCountTwo ==
    /\ gc_log.ran =>
            gc_log.after = SelectSeq(gc_log.before,
                                     LAMBDA c : gc_log.counts[c] # NUM_INTERNAL_REFS)
    /\ PostSweep => \A c \in Elems(first_obj) : strong_count(c) # NUM_INTERNAL_REFS

\* C22's case: a pass over three nodes unlinked the one in the middle
C22_Witness ==
    /\ PostSweep
    /\ Len(gc_log.before) = 3
    /\ gc_log.after = <<gc_log.before[1], gc_log.before[3]>>

(***************************************************************************)
(* Claims about compile and run (Spec, SpecRun, SpecPool)                  *)
(***************************************************************************)
LiteralKinds == {"Number", "String", "Nil", "True", "False"}
InfixKinds ==
    {"Or", "And", "EqualEqual", "BangEqual", "Greater", "GreaterEqual", "Less",
     "LessEqual", "Minus", "Plus", "Star", "Slash"}

\* The source begins with an expression or print statement that is a single
\* literal, and what follows the literal is not a `;` (nor an operator that
\* would continue the expression)
Unterminated(lexemes) ==
    LET body == IF lexemes # <<>> /\ lexemes[1].kind = "Print" THEN Tail(lexemes) ELSE lexemes
    IN  /\ body # <<>>
        /\ body[1].kind \in LiteralKinds
        /\ Len(body) = 1 \/ body[2].kind \notin InfixKinds \cup {"Semicolon"}

Printed == {i \in 1..Len(output) : output[i].from = "Print"}
LexErrCount(lexemes) == Cardinality({i \in 1..Len(lexemes) : lexemes[i].kind \in LexErrKinds})
Recorded(kind) == Cardinality({i \in 1..Len(errs) : errs[i].kind = kind})

\* C1: for every source in which an expression statement or print statement
\* is not followed by `;`, compile records at least one error, run returns
\* exit code 65, no VM is constructed and no Print of the program is executed.
C1_MissingSemicolonRejected ==
    Unterminated(src) =>
        /\ pc \notin {"running", "vm_done", "crashed"}
        /\ Printed = {}
        /\ pc = "exited" => exit_code = 65 /\ Len(errs) >= 1

\* C3: for every successfully compiled program the VM never pops an empty
\* operand stack: every instruction about to run finds at least as many
\* values on the stack as it pops.
Pops(op) ==
    CASE op \in {"Equal", "Greater", "Less", "Add", "Subtract", "Multiply", "Divide"} -> 2
      [] op \in {"Pop", "Not", "Negate", "Print"} -> 1
      [] OTHER -> 0
C3_NeverPopsEmpty ==
    compile_result = "Ok" =>
        /\ crash # "expect: Popped value to be populated."
        /\ pc = "running" /\ ip < Len(chunks) =>
              Len(runtime_values) >= Pops(try_from(chunks[ip + 1].op))

\* C3's case: a compiled program ran to its Return, popping on the way
C3_Witness ==
    /\ compile_result = "Ok"
    /\ pc = "exited"
    /\ vm_result = "Ok"
    /\ iterations > 3
    /\ Printed # {}

\* The instruction about to run is `op`, with two operands a (below) and b (top)
AtBinary(op) ==
    /\ pc = "running"
    /\ iterations < ITER_MAX
    /\ try_from(chunks[ip + 1].op) = op
    /\ Len(runtime_values) >= 2
OperandB == runtime_values[Len(runtime_values)]
OperandA == runtime_values[Len(runtime_values) - 1]
Below == SubSeq(runtime_values, 1, Len(runtime_values) - 2)
SameValue(a, b) == a.type = b.type /\ a.n = b.n /\ a.d = b.d /\ a.s = b.s

StringsInTables ==
    \A i \in 1..Len(runtime_values) :
        runtime_values[i].type = "Object" =>
            /\ runtime_values[i].tbl \in {"compiled", "runtime"}
            /\ runtime_values[i].tbl = "compiled" => runtime_values[i].s \in compiled_strings
            /\ runtime_values[i].tbl = "runtime" => runtime_values[i].s \in runtime_strings

\* C12: Add on two strings pushes a reference to the one canonical copy of
\* the concatenated text: the compiled string when the text is a compiled
\* constant (the runtime table is then left alone), otherwise the runtime
\* string of that text, inserted if it was not there and reused if it was;
\* no text is ever in both tables, and every string on the stack refers
\* into the table that holds its text.
C12_ConcatenationInterned ==
    [][/\ (AtBinary("Add") /\ OperandA.type = "Object" /\ OperandB.type = "Object") =>
            /\ crash' = ""
            /\ runtime_values' =
                    Append(Below, StringObject(
                        IF OperandA.s \o OperandB.s \in compiled_strings
                        THEN "compiled" ELSE "runtime", OperandA.s \o OperandB.s))
            /\ runtime_strings' =
                    IF OperandA.s \o OperandB.s \in compiled_strings THEN runtime_strings
                    ELSE runtime_strings \cup {OperandA.s \o OperandB.s}
       /\ (compiled_strings \cap runtime_strings)' = {}
       /\ StringsInTables']_vars

\* C12's case: Add has concatenated two strings into a text the runtime table
\* held already, and left the reference to it on the stack
C12_Witness ==
    /\ ip = 1
    /\ try_from(chunks[1].op) = "Add"
    /\ runtime_values = <<StringObject("runtime", "aa")>>
    /\ runtime_strings = {"b", "aa"}

\* the tokens an instruction can come from
OperatorTokens(op) ==
    CASE op = "Not" -> {"Bang", "BangEqual", "GreaterEqual", "LessEqual"}
      [] op = "Negate" -> {"Minus"}
      [] op = "Add" -> {"Plus"}
      [] op = "Subtract" -> {"Minus"}
      [] op = "Multiply" -> {"Star"}
      [] op = "Divide" -> {"Slash"}
      [] op = "Equal" -> {"EqualEqual", "BangEqual"}
      [] op = "Greater" -> {"Greater", "LessEqual"}
      [] op = "Less" -> {"Less", "GreaterEqual"}
      [] OTHER -> {}

\* C13: a runtime error is reported with the source line of the failing
\* operation: the line stored in the chunk of the instruction that failed is
\* the line of an operator token that instruction can come from, also when
\* the expression spans several lines.  (The claim asks for the line of the
\* very token that produced the instruction; this is the least it implies.)
C13_ErrorLineIsOperatorLine ==
    vm_result = "RuntimeErr" =>
        /\ vm_err.line = chunks[ip + 1].line
        /\ \E i \in 1..Len(tokens) :
              /\ tokens[i].kind \in OperatorTokens(try_from(chunks[ip + 1].op))
              /\ tokens[i].line = vm_err.line

\* C13's case: a runtime error in a source whose tokens are not all on one line
C13_Witness ==
    /\ vm_result = "RuntimeErr"
    /\ \E i, j \in 1..Len(tokens) : tokens[i].line # tokens[j].line

\* the lines of `out` that Print instructions wrote
PrintLines(out) == SelectSeq(out, LAMBDA line : line.from = "Print")

\* C14: the lines the Print instructions of a run write to standard output
\* are exactly the operands of the executed Print instructions, in execution
\* order: an iteration that executes Print appends its operand's text, any
\* other instruction writes nothing; once an instruction has raised a
\* runtime error no instruction executes and no Print line is added (run
\* then writes the error report, and nothing else, to standard output).
C14_PrintLinesInOrder ==
    [][/\ (pc = "running" /\ iterations < ITER_MAX /\ crash' = "") =>
            output' = IF try_from(chunks[ip + 1].op) = "Print"
                      THEN Append(output, Line("Print",
                               to_string(runtime_values[Len(runtime_values)]).text))
                      ELSE output
       /\ vm_result = "RuntimeErr" =>
            /\ UNCHANGED <<ip, runtime_values, iterations, vm_result, vm_err>>
            /\ PrintLines(output') = PrintLines(output)
            /\ output' \in {output, Append(output, Line("RuntimeErr", vm_err.kind))}]_vars

\* C14's case: a run has printed a line, then raised a runtime error and
\* returned, a Print instruction of the program still ahead
C14_Witness ==
    /\ pc = "exited"
    /\ vm_result = "RuntimeErr"
    /\ PrintLines(output) # <<>>
    /\ \E i \in (ip + 2)..Len(chunks) : try_from(chunks[i].op) = "Print"

\* C14 as stated: nothing but the operands of Print is ever written to
\* standard output
C14_OnlyPrintLines == output = PrintLines(output)

\* The instruction about to run is `op`, with an operand on the stack
AtUnary(op) ==
    /\ pc = "running"
    /\ iterations < ITER_MAX
    /\ try_from(chunks[ip + 1].op) = op
    /\ Len(runtime_values) >= 1
Operand == runtime_values[Len(runtime_values)]
BelowOperand == SubSeq(runtime_values, 1, Len(runtime_values) - 1)
Raises(kind) == vm_result' = "RuntimeErr" /\ vm_err'.kind = kind /\ crash' = ""
Continues == vm_result' = "none" /\ crash' = "" /\ ip' = ip + 1

\* C15: Not pops one value and pushes true for Nil and the negation for a
\* Boolean; on a Number the run ends with BooleanOperationOnNumber, on an
\* Object with BooleanOperationOnObject, both times as a RuntimeErr that run
\* turns into exit code 70, never as a crash.
C15_NotByOperandType ==
    [][/\ AtUnary("Not") =>
            CASE Operand.type = "Nil" ->
                    Continues /\ runtime_values' = Append(BelowOperand, BooleanValue(TRUE))
              [] Operand.type = "Boolean" ->
                    Continues /\ runtime_values' = Append(BelowOperand, BooleanValue(Operand.n # 1))
              [] Operand.type = "Number" -> Raises("BooleanOperationOnNumber")
              [] Operand.type = "Object" -> Raises("BooleanOperationOnObject")
       /\ (vm_result = "RuntimeErr" /\ pc = "vm_done") =>
            pc' = "exited" /\ exit_code' = 70 /\ crash' = ""]_vars

\* C15's case: a run that ended in Not on an Object, with exit code 70
C15_Witness ==
    /\ pc = "exited"
    /\ exit_code = 70
    /\ vm_err.kind = "BooleanOperationOnObject"
    /\ try_from(chunks[ip + 1].op) = "Not"

\* what an arithmetic instruction is to compute from a (below) and b (top)
Arithmetic(op, a, b) ==
    CASE op = "Subtract" -> NumSub(a, b)
      [] op = "Multiply" -> NumMul(a, b)
      [] op = "Divide" -> NumDiv(a, b)

\* nothing was pushed: the stack is the old one or a part of it from the bottom
PushedNothing ==
    /\ Len(runtime_values') <= Len(runtime_values)
    /\ runtime_values' = SubSeq(runtime_values, 1, Len(runtime_values'))

\* C16: Subtract, Multiply and Divide pop b (the top) then a and push a-b,
\* a*b and a/b when both are Numbers; Negate pops one Number and pushes its
\* negation; with an operand that is not a Number the instruction fails with
\* ArithmeticOnNonNumber and pushes nothing.
C16_ArithmeticOnNumbers ==
    [][/\ \A op \in {"Subtract", "Multiply", "Divide"} :
            AtBinary(op) =>
                IF OperandA.type = "Number" /\ OperandB.type = "Number"
                THEN /\ Continues
                     /\ runtime_values' = Append(Below, Arithmetic(op, OperandA, OperandB))
                ELSE Raises("ArithmeticOnNonNumber") /\ PushedNothing
       /\ AtUnary("Negate") =>
            IF Operand.type = "Number"
            THEN Continues /\ runtime_values' = Append(BelowOperand, Num(0 - Operand.n, Operand.d))
            ELSE Raises("ArithmeticOnNonNumber") /\ PushedNothing]_vars

\* C16's case: a Subtract of two different Numbers has left a - b on the
\* stack, which is not b - a
C16_Witness ==
    /\ ip = 1
    /\ try_from(chunks[1].op) = "Subtract"
    /\ iterations = 1
    /\ runtime_values = <<NumberValue(-1)>>

\* a > b on two f64: false as soon as one is NaN, infinities at the ends
GreaterThan(a, b) ==
    /\ ~IsNaN(a) /\ ~IsNaN(b)
    /\ a # b
    /\ \/ a = Num(1, 0)
       \/ b = Num(-1, 0)
       \/ a.d # 0 /\ b.d # 0 /\ a.n * b.d > b.n * a.d

\* C17: Greater and Less pop b (the top) then a and push the Boolean a > b,
\* respectively a < b, when both are Numbers; when either operand is not a
\* Number the instruction fails with ComparisonOnNonNumber.
C17_ComparisonOnNumbers ==
    [][/\ AtBinary("Greater") =>
            IF OperandA.type = "Number" /\ OperandB.type = "Number"
            THEN /\ Continues
                 /\ runtime_values' =
                        Append(Below, BooleanValue(GreaterThan(OperandA, OperandB)))
            ELSE Raises("ComparisonOnNonNumber")
       /\ AtBinary("Less") =>
            IF OperandA.type = "Number" /\ OperandB.type = "Number"
            THEN /\ Continues
                 /\ runtime_values' =
                        Append(Below, BooleanValue(GreaterThan(OperandB, OperandA)))
            ELSE Raises("ComparisonOnNonNumber")]_vars

\* C17's case: Greater on a = 2 below b = 1 has left true on the stack
C17_Witness ==
    /\ ip = 1
    /\ try_from(chunks[1].op) = "Greater"
    /\ iterations = 1
    /\ runtime_values = <<BooleanValue(TRUE)>>

\* C18: VM::run always terminates.  It makes at most 1,000,000 iterations of
\* fetch, decode, execute, each of which counts; a run that has reached
\* neither Return nor an error after the last one ends with OutOfIterations,
\* which run reports as a success (exit code 0) and not as a crash; and
\* VM::run, once entered, comes to its end.
C18_RunTerminates ==
    /\ [](iterations <= ITER_MAX)
    /\ [][pc = "running" =>
            \/ iterations < ITER_MAX /\ iterations' = iterations + 1
            \/ /\ iterations = ITER_MAX
               /\ vm_result' = "OutOfIterations"
               /\ pc' = "vm_done"
               /\ UNCHANGED <<iterations, ip, runtime_values, crash>>]_vars
    /\ []((pc = "exited" /\ vm_result = "OutOfIterations") => (exit_code = 0 /\ crash = ""))
    /\ (pc = "running") ~> (pc \in {"vm_done", "crashed"})

\* C18's case: the last iteration went through without Return or error, and
\* the run ended with OutOfIterations
C18_Witness ==
    /\ pc = "exited"
    /\ vm_result = "OutOfIterations"
    /\ iterations = ITER_MAX
    /\ ip = 1

\* C19: a byte (0..255) decodes to an opcode exactly when it is in 0..36, and
\* then to the opcode whose tag it is, so that decoding the tag of any opcode
\* gives the opcode back; an iteration of the VM that fetches any other byte
\* ends VM::run at once with the Panic outcome, which is no RuntimeErr, with
\* the stack and ip as they were, and no iteration follows.
C19_DecodeOrPanic ==
    [][/\ \A byte \in 0..255 :
            /\ try_from(byte) # "Err" <=> byte \in 0..36
            /\ try_from(byte) # "Err" => OpCode[try_from(byte)] = byte
       /\ \A name \in DOMAIN OpCode : try_from(OpCode[name]) = name
       /\ (pc = "running" /\ iterations < ITER_MAX /\ chunks[ip + 1].op \notin 0..36) =>
            /\ vm_result' = "Panic"
            /\ vm_err' = NoErr
            /\ pc' = "vm_done"
            /\ crash' = ""
            /\ UNCHANGED <<ip, runtime_values, runtime_strings>>
       /\ vm_result = "Panic" =>
            /\ UNCHANGED <<ip, runtime_values, runtime_strings, iterations, vm_result>>
            /\ exit_code' \notin {0, 70}]_vars

\* C19's case: the VM fetched byte 37 and run returned after the Panic
C19_Witness ==
    /\ pc = "exited"
    /\ vm_result = "Panic"
    /\ chunks[ip + 1].op = 37
    /\ iterations \in {1, ITER_MAX}

CompileOver == pc \in {"compiled", "running", "vm_done", "exited", "crashed"}

\* C23: after a parse error the compiler discards tokens up to the next one
\* that starts a statement (class, fun, var, for, if, print, return) or the
\* end of input and resumes compiling there: for `1 1 <start>`, an
\* expression statement without its `;` and then a statement that such a
\* token starts and that is not complete, the one compile pass records two
\* errors, whichever of the seven tokens the second statement starts with.
C23_TwoErrorsAcrossBoundary ==
    (CompileOver /\ src \in RecoveryPrograms) =>
        /\ crash = ""
        /\ compile_result = "Err"
        /\ Len(errs) = 2

\* C23's case: the compiler resumed at a `print` and recorded the second error
C23_Witness ==
    /\ pc = "compiled"
    /\ src = <<NumLx(1), NumLx(1), Lx("Print")>>
    /\ Len(errs) = 2

\* Compiler::new, and the loop of Compiler::compile run to its end on the
\* tokens: the compiler when no token is left, or when a todo!() was met
NewCompiler ==
    [p |-> [pos |-> 0, previous |-> 0, current |-> 0], chunks |-> <<>>, errs |-> <<>>,
     values |-> <<>>, had_err |-> FALSE, crash |-> ""]

RECURSIVE CompileLoop(_)
AfterStatement(r) ==
    IF r.c.crash # "" THEN r.c
    ELSE IF r.result = "Err"
    THEN CompileLoop([r.c EXCEPT !.p = panic_mode_recovery(r.c.p)])
    ELSE CompileLoop(r.c)
CompileLoop(c) == IF c.p.pos >= Len(tokens) THEN c ELSE AfterStatement(statement(c))

\* what compile() leaves of such a compiler: the Return is appended
Compiled(c) ==
    [chunks |-> Append(c.chunks, Chunk(c.p, OpCode.Return)), values |-> c.values,
     errs |-> c.errs]

RunEnd(i, set) ==
    CHOOSE j \in i..(Len(source) + 1) :
        /\ \A k \in i..(j - 1) : source[k] \in set
        /\ j <= Len(source) => source[j] \notin set

\* whether the character at index i exists and is one of `set`
Is(i, set) == i \in 1..Len(source) /\ source[i] \in set

\* next() is called with the tokenizer in front of a character of `set`
CalledAt(set) == pc = "tokenizing" /\ Is(chars + 1, set)

\* the item that call returned
Returned == stream'[Len(stream')]

\* an Ok item of this kind over the characters from index i up to, not
\* including, index j
Spans(item, kind, i, j) ==
    /\ item.ok
    /\ item.kind = kind
    /\ item.start.byte = i - 1
    /\ item.end.byte = j - 1

\* the number that starts at index i: where its digits end, and where the
\* digits after a '.' end
Whole(i) == RunEnd(i, Digits)
HasPeriod(i) == Is(Whole(i), {"."})
HasFraction(i) == HasPeriod(i) /\ Is(Whole(i) + 1, Digits)
NumberEnd(i) == IF HasFraction(i) THEN RunEnd(Whole(i) + 1, Digits) ELSE Whole(i)

\* C26: a Number token is one or more digits, optionally followed by a
\* single '.' and at least one more digit; digits followed by a '.' that no
\* digit follows yield a TrailingPeriod error instead of a Number token.
\* Called in front of a digit, next() returns exactly one item: the error
\* when the digits are followed by such a '.', and else the Number token
\* over the digits, the '.' and the digits after it; and no Number token
\* of the stream has another shape.
C26_NumberOrTrailingPeriod ==
    /\ [][CalledAt(Digits) =>
            /\ Len(stream') = Len(stream) + 1
            /\ IF HasPeriod(chars + 1) /\ ~HasFraction(chars + 1)
               THEN ~Returned.ok /\ Returned.kind = "TrailingPeriod"
               ELSE /\ Spans(Returned, "Number", chars + 1, NumberEnd(chars + 1))
                    /\ chars' = NumberEnd(chars + 1) - 1]_vars
    /\ [](\A n \in 1..Len(stream) :
             stream[n].kind = "Number" =>
                 /\ Is(stream[n].start.byte + 1, Digits)
                 /\ stream[n].end.byte = NumberEnd(stream[n].start.byte + 1) - 1)

\* C26's case: the text `1+1.` was tokenized: a Number, and then an error
\* in place of the second one
C26_Witness ==
    /\ pc = "tokenized"
    /\ source = <<"1", "+", "1", ".">>
    /\ Len(stream) = 3
    /\ stream[1].kind = "Number"
    /\ stream[3].kind = "TrailingPeriod"

\* the quotes after index i that no backslash immediately precedes
ClosingQuotes(i) ==
    {j \in (i + 1)..Len(source) : source[j] = "\"" /\ source[j - 1] # "\\"}
FirstOf(S) == CHOOSE j \in S : \A k \in S : j <= k

\* C27: a String token starts at a '"' and ends at the first later '"' that
\* is not immediately preceded by a backslash; if the text ends before such
\* a quote the tokenizer yields an UnexpectedEOF error.  Called in front of
\* a '"', next() returns exactly one item: the String token from that quote
\* through the first such later quote, or, when there is none, the error,
\* with the rest of the text consumed.
C27_StringEndsAtUnescapedQuote ==
    [][CalledAt({"\""}) =>
          /\ Len(stream') = Len(stream) + 1
          /\ IF ClosingQuotes(chars + 1) = {}
             THEN /\ ~Returned.ok
                  /\ Returned.kind = "UnexpectedEOF"
                  /\ chars' = Len(source)
             ELSE /\ Spans(Returned, "String", chars + 1,
                           FirstOf(ClosingQuotes(chars + 1)) + 1)
                  /\ chars' = FirstOf(ClosingQuotes(chars + 1))]_vars

\* C27's case: the text `"\""` was tokenized to one String token that goes
\* past the escaped quote
C27_Witness ==
    /\ pc = "tokenized"
    /\ source = <<"\"", "\\", "\"", "\"">>
    /\ Len(stream) = 1
    /\ stream[1].kind = "String"
    /\ stream[1].end.byte = 4

\* the kind of the keyword spelled so
KeywordSpelled(spelling) ==
    CHOOSE kind \in DOMAIN KeywordSpellings : KeywordSpellings[kind] = spelling

\* C28: an identifier token is the longest run matching
\* [A-Za-z_][A-Za-z0-9_]* from its first character; it is a keyword token
\* exactly when its whole text is one of the 16 keywords, and Identifier
\* otherwise.  Called in front of a letter or '_', next() returns exactly
\* one token, over the longest run of letters, digits and '_' from there;
\* its kind is that of the keyword the run spells, Identifier if it spells
\* none.
C28_IdentifierOrKeyword ==
    [][CalledAt(IdentStart) =>
          /\ Len(stream') = Len(stream) + 1
          /\ Returned.ok
          /\ Returned.start.byte = chars
          /\ Returned.end.byte = RunEnd(chars + 1, IdentPart) - 1
          /\ chars' = RunEnd(chars + 1, IdentPart) - 1
          /\ Returned.kind =
                 IF SubSeq(source, chars + 1, RunEnd(chars + 1, IdentPart) - 1) \in Spellings
                 THEN KeywordSpelled(SubSeq(source, chars + 1,
                                            RunEnd(chars + 1, IdentPart) - 1))
                 ELSE "Identifier"]_vars

\* C28's case: the text `print1`, a keyword and one more identifier
\* character, was tokenized to one Identifier
C28_Witness ==
    /\ pc = "tokenized"
    /\ source = KeywordSpellings["Print"] \o <<"1">>
    /\ Len(stream) = 1
    /\ stream[1].kind = "Identifier"
    /\ stream[1].end.byte = 6

\* the tokenizer that has consumed the first k characters of the text and
\* nothing else
Consumed(k) ==
    [chars |-> k,
     current_position |->
         [line |-> Cardinality({j \in 1..k : source[j] = "\n"}),
          col |-> Cardinality({j \in 1..k : \A l \in j..k : source[l] # "\n"}),
          byte |-> IF k = 0 THEN 0 ELSE k - 1]]

\* the comment that starts at index i: how many characters of the text are
\* over when it ends
LineEnds(i) == {j \in (i + 2)..Len(source) : source[j] = "\n"}
LineCommentEnd(i) == IF LineEnds(i) = {} THEN Len(source) ELSE FirstOf(LineEnds(i))
BlockEnds(i) == {j \in (i + 2)..(Len(source) - 1) : source[j] = "*" /\ source[j + 1] = "/"}
BlockCommentEnd(i) == IF BlockEnds(i) = {} THEN Len(source) ELSE FirstOf(BlockEnds(i)) + 1
CommentEnd(i) == IF Is(i + 1, {"/"}) THEN LineCommentEnd(i) ELSE BlockCommentEnd(i)

\* C29: the tokenizer never emits a token for comment text: `//` discards
\* everything up to and including the end of the line, `/*` everything up
\* to and including the first following `*/` (across lines, without
\* nesting), tokenizing resumes right after the comment, and a '/' that
\* neither '/' nor '*' follows is a Slash token.  Called in front of a '/',
\* next() returns the Slash token over that character when neither follows,
\* and else what it returns when called right after the comment, leaving
\* the tokenizer as that call leaves it; an item it returns then starts
\* after the comment.
C29_CommentsDiscarded ==
    [][CalledAt({"/"}) =>
          IF Is(chars + 2, {"/", "*"})
          THEN /\ Tokenizer' = next(Consumed(CommentEnd(chars + 1))).t
               /\ IF next(Consumed(CommentEnd(chars + 1))).item = None
                  THEN pc' = "tokenized" /\ stream' = stream
                  ELSE /\ stream' = Append(stream, next(Consumed(CommentEnd(chars + 1))).item)
                       /\ Returned.start.byte >= CommentEnd(chars + 1)
          ELSE /\ Len(stream') = Len(stream) + 1
               /\ Spans(Returned, "Slash", chars + 1, chars + 2)
               /\ chars' = chars + 1]_vars

\* C29's case: the text `/*a*/a` was tokenized: one
\* Identifier, the one after the comment
C29_Witness ==
    /\ pc = "tokenized"
    /\ source = <<"/", "*", "a", "*", "/", "a">>
    /\ Len(stream) = 1
    /\ stream[1].kind = "Identifier"
    /\ stream[1].start.byte = 5

\* the characters a token starts with: punctuation, operators, digits, the
\* quote, letters and the underscore; and the characters of the text
\* that are neither one of them nor whitespace
Punctuation == {"(", ")", "{", "}", ",", ".", ";"}
Operators == {"-", "+", "/", "*", "!", "=", ">", "<"}
TokenStarts == Punctuation \cup Operators \cup Digits \cup {"\""} \cup Letters \cup {"_"}
Whitespace == {" ", "\t", "\n", "\f", "\r"}
Stray == {source[i] : i \in 1..Len(source)} \ (TokenStarts \cup Whitespace)

\* C30: outside strings and comments, ASCII whitespace is skipped without
\* producing a token, and every other character that starts no token yields
\* an InvalidChar error, after which tokenizing continues with the next
\* character.  Called in front of a whitespace character, next() returns
\* what it returns when called right after it, an item that starts after
\* it; called in front of a character that is neither whitespace nor the
\* start of a token, it returns the error for that character and leaves
\* the tokenizer right after it, the stream not ended.
C30_WhitespaceAndInvalidChar ==
    /\ [][CalledAt(Whitespace) =>
             /\ Tokenizer' = next(Consumed(chars + 1)).t
             /\ IF next(Consumed(chars + 1)).item = None
                THEN pc' = "tokenized" /\ stream' = stream
                ELSE /\ stream' = Append(stream, next(Consumed(chars + 1)).item)
                     /\ Returned.start.byte >= chars + 1]_vars
    /\ [][CalledAt(Stray) =>
             /\ Len(stream') = Len(stream) + 1
             /\ ~Returned.ok
             /\ Returned.kind = "InvalidChar"
             /\ Returned.start.byte = chars
             /\ chars' = chars + 1
             /\ pc' = "tokenizing"]_vars

\* C30's case: the text `a @a` was tokenized: an Identifier, nothing for
\* the space, the error for `@`, and the Identifier after it
C30_Witness ==
    /\ pc = "tokenized"
    /\ source = <<"a", " ", "@", "a">>
    /\ Len(stream) = 3
    /\ stream[1].kind = "Identifier"
    /\ stream[2].kind = "InvalidChar"
    /\ stream[3].kind = "Identifier"
    /\ stream[3].start.byte = 3

\* the number literal of the text `print n;`, as indexes into the text:
\* where its first digit, its first digit other than a leading 0, its '.'
\* (or its end) and its last digit other than a trailing 0 after the '.'
\* are
LiteralStart == Len(PrintOf(<<>>)) + 1
LiteralEnd == Len(source) - 1
LiteralPeriod ==
    LiteralStart + Cardinality({i \in LiteralStart..LiteralEnd :
                                   \A j \in LiteralStart..i : source[j] # "."})
LiteralFirst ==
    LiteralStart + Cardinality({i \in LiteralStart..(LiteralPeriod - 2) :
                                   \A j \in LiteralStart..i : source[j] = "0"})
LiteralLast ==
    LiteralEnd - Cardinality({i \in (LiteralPeriod + 1)..LiteralEnd :
                                 \A j \in i..LiteralEnd : source[j] = "0"})

\* the decimal text form of the number: its digits without the leading
\* zeros of the whole part and the trailing zeros after the '.', and
\* without a '.' that nothing follows
DecimalText ==
    Slice(LiteralFirst - 1, LiteralPeriod - 1)
    \o (IF LiteralLast > LiteralPeriod THEN Slice(LiteralPeriod - 1, LiteralLast) ELSE "")

\* the number is beyond f64::MAX: more than 309 digits from the first one
\* that is not 0
BeyondF64 == LiteralPeriod - LiteralFirst > F64_MAX_10_EXP + 1

PrintedNumber == pc = "exited" /\ source \in PrintNumberTexts

C31_TokenizerFinite ==
    /\ [][pc = "tokenizing" =>
             \/ chars' > chars /\ Len(stream') = Len(stream) + 1
             \/ pc' = "tokenized" /\ stream' = stream /\ chars' = Len(source)]_vars
    /\ [][pc = "tokenized" => UNCHANGED <<pc, stream, chars, current_position>>]_vars
    /\ [](pc = "tokenized" => next(Tokenizer).item = None)
    /\ <>(pc = "tokenized")

\* C31's case: next() has returned three items and then None
C31_Witness ==
    /\ pc = "tokenized"
    /\ Len(source) = 3
    /\ Len(stream) = 3
    /\ next(Tokenizer).item = None

\* The postfix form of a token sequence by operator precedence: operands go
\* to the output as they come, an operator waits on a stack until an operator
\* that binds no tighter, a `)` or the end arrives.
Level(kind) ==
    CASE kind \in {"EqualEqual", "BangEqual"} -> 1
      [] kind \in {"Greater", "GreaterEqual", "Less", "LessEqual"} -> 2
      [] kind \in {"Minus", "Plus"} -> 3
      [] kind \in {"Star", "Slash"} -> 4

\* a prefix operator binds tighter than every binary operator
UnaryLevel == Level("Star") + 1

\* the instructions an operator stands for
Written(kind, prefix) ==
    IF prefix THEN (IF kind = "Bang" THEN <<OpCode.Not>> ELSE <<OpCode.Negate>>)
    ELSE CASE kind = "EqualEqual" -> <<OpCode.Equal>>
           [] kind = "BangEqual" -> <<OpCode.Equal, OpCode.Not>>
           [] kind = "Greater" -> <<OpCode.Greater>>
           [] kind = "GreaterEqual" -> <<OpCode.Less, OpCode.Not>>
           [] kind = "Less" -> <<OpCode.Less>>
           [] kind = "LessEqual" -> <<OpCode.Greater, OpCode.Not>>
           [] kind = "Minus" -> <<OpCode.Subtract>>
           [] kind = "Plus" -> <<OpCode.Add>>
           [] kind = "Star" -> <<OpCode.Multiply>>
           [] kind = "Slash" -> <<OpCode.Divide>>

OperandKinds == {"Number", "String", "Nil", "True", "False"}

\* The waiting operators that leave the stack before one of level `level`
\* enters: y is [out, stack, constants]
RECURSIVE Unwind(_, _)
Unwind(y, level) ==
    IF y.stack = <<>> \/ y.stack[Len(y.stack)].level < level THEN y
    ELSE Unwind([y EXCEPT !.out = y.out \o y.stack[Len(y.stack)].code,
                          !.stack = SubSeq(y.stack, 1, Len(y.stack) - 1)], level)

Waiting(code, level) == [code |-> code, level |-> level]

\* whether the operator at i stands before its operand
IsPrefix(e, i) == i = 1 \/ e[i - 1].kind \notin OperandKinds \cup {"RightParen"}

RECURSIVE PostfixFrom(_, _, _)
PostfixFrom(e, i, y) ==
    IF i > Len(e) THEN Unwind(y, 1).out
    ELSE CASE e[i].kind \in OperandKinds ->
                PostfixFrom(e, i + 1,
                            [y EXCEPT !.out = y.out \o <<OpCode.Constant, y.constants>>,
                                      !.constants = y.constants + 1])
           [] e[i].kind = "LeftParen" ->
                PostfixFrom(e, i + 1, [y EXCEPT !.stack = Append(y.stack, Waiting(<<>>, 0))])
           [] e[i].kind = "RightParen" ->
                PostfixFrom(e, i + 1,
                            [Unwind(y, 1) EXCEPT
                                !.stack = SubSeq(Unwind(y, 1).stack, 1,
                                                 Len(Unwind(y, 1).stack) - 1)])
           [] IsPrefix(e, i) ->
                PostfixFrom(e, i + 1,
                            [y EXCEPT !.stack = Append(y.stack,
                                                       Waiting(Written(e[i].kind, TRUE),
                                                               UnaryLevel))])
           [] OTHER ->
                PostfixFrom(e, i + 1,
                            [Unwind(y, Level(e[i].kind)) EXCEPT
                                !.stack = Append(Unwind(y, Level(e[i].kind)).stack,
                                                 Waiting(Written(e[i].kind, FALSE),
                                                         Level(e[i].kind)))])

Postfix(e) == PostfixFrom(e, 1, [out |-> <<>>, stack |-> <<>>, constants |-> 0])

\* the expression of a one-statement program
ExpressionOf(program) ==
    SubSeq(program, IF program[1].kind = "Print" THEN 2 ELSE 1, Len(program) - 1)

Codes(code) == [i \in 1..Len(code) |-> code[i].op]
Emitted(n) == SubSeq(Codes(chunks), 1, n)

\* C32: the emitted instructions of an expression are the postfix form of a
\* parse honouring Equality < Comparison < Term < Factor < Unary and the
\* left-associativity of binary operators; unary ! and - are right-associative
\* and bind tighter than every binary operator; a parenthesized group is a
\* whole expression.  Once the statement is compiled the chunks start with
\* the postfix form of its expression, followed by the statement's own Pop or
\* the Print opcode.
C32_PostfixByPrecedence ==
    (src \in ExpressionPrograms /\ pc \notin {"start", "compiling"}) =>
        /\ errs = <<>>
        /\ Len(chunks) > Len(Postfix(ExpressionOf(src)))
        /\ Emitted(Len(Postfix(ExpressionOf(src)))) = Postfix(ExpressionOf(src))
        /\ chunks[Len(Postfix(ExpressionOf(src))) + 1].op
             = (IF src[1].kind = "Print" THEN OpCode["Print"] ELSE OpCode.Pop)

\* C32's cases: 1 - 2 - 3 and 1 + 2 * 3 are compiled, and so are - ! 1 and
\* 1 * (2 + 3)
C32_Witness ==
    /\ pc = "compiled"
    /\ \/ /\ ExpressionOf(src) = <<NumLx(1), Lx("Minus"), NumLx(2), Lx("Minus"), NumLx(3)>>
          /\ Emitted(8) = <<OpCode.Constant, 0, OpCode.Constant, 1, OpCode.Subtract,
                            OpCode.Constant, 2, OpCode.Subtract>>
       \/ /\ ExpressionOf(src) = <<NumLx(1), Lx("Plus"), NumLx(2), Lx("Star"), NumLx(3)>>
          /\ Emitted(8) = <<OpCode.Constant, 0, OpCode.Constant, 1, OpCode.Constant, 2,
                            OpCode.Multiply, OpCode.Add>>

\* The parts of a program `print a o b;` of ComparisonPrograms
ComparisonAt == CHOOSE i \in 1..Len(src) : src[i] \in Synthesized
LeftForm == SubSeq(src, 2, ComparisonAt - 1)
RightForm == SubSeq(src, ComparisonAt + 1, Len(src) - 1)

\* the number an operand form evaluates to, and its code with the constants
\* numbered from k
FormValue(form) ==
    IF Len(form) = 1 THEN Num(form[1].n, form[1].d)
    ELSE NumDiv(Num(form[1].n, form[1].d), Num(form[3].n, form[3].d))
FormCode(form, k) ==
    IF Len(form) = 1 THEN <<OpCode.Constant, k>>
    ELSE <<OpCode.Constant, k, OpCode.Constant, k + 1, OpCode.Divide>>
FormConstants(form) == IF Len(form) = 1 THEN 1 ELSE 2

\* the two instructions of each form, and the comparison as written (IEEE 754)
TwoInstructions(kind) ==
    CASE kind = "BangEqual" -> <<OpCode.Equal, OpCode.Not>>
      [] kind = "LessEqual" -> <<OpCode.Greater, OpCode.Not>>
      [] kind = "GreaterEqual" -> <<OpCode.Less, OpCode.Not>>
WrittenTruth(kind, a, b) ==
    CASE kind = "BangEqual" -> ~NumEq(a, b)
      [] kind = "LessEqual" -> NumLt(a, b) \/ NumEq(a, b)
      [] kind = "GreaterEqual" -> NumGt(a, b) \/ NumEq(a, b)

ComparisonCode ==
    FormCode(LeftForm, 0) \o FormCode(RightForm, FormConstants(LeftForm))
    \o TwoInstructions(src[ComparisonAt].kind) \o <<OpCode["Print"], OpCode.Return>>

PrintedTruth(truth) == <<Line("Print", IF truth THEN "true" ELSE "false")>>

\* C33 as stated: a != b compiles to the code of a and b, then Equal, Not;
\* a <= b to Greater, Not; a >= b to Less, Not; and for all Number operands
\* executing the sequence pushes the truth value of the written comparison.
C33_WrittenComparison ==
    (src \in ComparisonPrograms /\ pc = "exited") =>
        /\ Codes(chunks) = ComparisonCode
        /\ output = PrintedTruth(WrittenTruth(src[ComparisonAt].kind,
                                         FormValue(LeftForm), FormValue(RightForm)))

\* C33 amended: the code is as stated; the sequence pushes the truth value of
\* the written comparison when neither operand is NaN, and true when one is.
C33_WrittenComparisonUnlessNaN ==
    (src \in ComparisonPrograms /\ pc = "exited") =>
        /\ Codes(chunks) = ComparisonCode
        /\ output = PrintedTruth(IF IsNaN(FormValue(LeftForm)) \/ IsNaN(FormValue(RightForm))
                            THEN TRUE
                            ELSE WrittenTruth(src[ComparisonAt].kind,
                                              FormValue(LeftForm), FormValue(RightForm)))

\* C33's case: `print 0/0 <= 1;` has run and printed true, and so has
\* `print 1 <= 2;`
C33_Witness ==
    /\ pc = "exited"
    /\ src \in ComparisonPrograms
    /\ src[ComparisonAt].kind = "LessEqual"
    /\ RightForm = <<NumLx(1)>>
    /\ IsNaN(FormValue(LeftForm))
    /\ output = PrintedTruth(TRUE)

\* The bytes a step has appended to the chunks, and the literals among the
\* tokens it has consumed, as the values they denote
Appended == SubSeq(Codes(chunks'), Len(chunks) + 1, Len(chunks'))

Denoted(token) ==
    CASE token.kind = "Number" -> Num(token.n, token.d)
      [] token.kind = "String" -> StringObject("const", token.s)
      [] token.kind = "True" -> BooleanValue(TRUE)
      [] token.kind = "False" -> BooleanValue(FALSE)
      [] token.kind = "Nil" -> NilValue

ConsumedLiterals ==
    LET literals == SelectSeq(SubSeq(tokens, pos + 1, pos'),
                              LAMBDA token : token.kind \in OperandKinds)
    IN  [i \in 1..Len(literals) |-> Denoted(literals[i])]

\* Reading `code` from byte i as instructions, the Constant instructions
\* numbered from k: the number the next Constant would have, or -1 when an
\* opcode lacks its operand, an operand is not the number of its
\* instruction, or a byte is no opcode
RECURSIVE Numbered(_, _, _)
Numbered(code, i, k) ==
    IF i > Len(code) THEN k
    ELSE IF code[i] = OpCode.Constant
    THEN (IF i < Len(code) /\ code[i + 1] = k THEN Numbered(code, i + 2, k + 1) ELSE -1)
    ELSE IF try_from(code[i]) # "Err" THEN Numbered(code, i + 1, k)
    ELSE -1

\* C34: in every chunk sequence compile returns, each opcode byte is followed
\* by exactly the operand bytes its encoding requires (one for Constant, none
\* for the others), and the operand of the i-th Constant is i-1, the index of
\* a populated pool slot holding that literal.  Every step that appends bytes
\* without an error recorded so far appends whole instructions whose
\* Constants continue the numbering at the pool's length, and puts the
\* literals it consumed into those slots; compile returns chunks only with
\* no error recorded, and they end with Return.
C34_OperandsFollowOpcodes ==
    /\ [][(chunks' # chunks /\ errs' = <<>> /\ crash' = "") =>
             /\ Numbered(Appended, 1, Len(values)) = Len(values')
             /\ values' = values \o ConsumedLiterals]_vars
    /\ [](compile_result = "Ok" =>
             /\ errs = <<>>
             /\ chunks # <<>>
             /\ chunks[Len(chunks)].op = OpCode.Return
             /\ Len(values) <= STACK_MAX)

\* C34's case: a program of STACK_MAX literals is compiled; its last Constant
\* has the operand STACK_MAX - 1
C34_Witness ==
    /\ compile_result = "Ok"
    /\ Len(values) = STACK_MAX
    /\ Len(chunks) > 3
    /\ chunks[Len(chunks) - 3].op = OpCode.Constant
    /\ chunks[Len(chunks) - 2].op = STACK_MAX - 1

\* The bytes of `code` from byte i on at which an instruction starts
RECURSIVE InstructionStarts(_, _)
InstructionStarts(code, i) ==
    IF i > Len(code) THEN {}
    ELSE {i} \cup InstructionStarts(code, i + (IF code[i] = OpCode.Constant THEN 2 ELSE 1))

\* VM::run is about to fetch code[ip]
Fetching == pc = "running" /\ iterations < ITER_MAX

FetchesAtOpcodes ==
    /\ crash # "index out of bounds: code[ip]"
    /\ Fetching => ip < Len(chunks) /\ ip + 1 \in InstructionStarts(Codes(chunks), 1)

\* VM::run is over, by a result or by a panic, without a runtime error
RunOverWithoutRuntimeErr ==
    /\ compile_result = "Ok"
    /\ pc \in {"vm_done", "exited", "crashed"}
    /\ vm_result # "RuntimeErr"

EndsByFinalReturn ==
    /\ vm_result = "Ok"
    /\ crash = ""
    /\ ip + 1 = Len(chunks)
    /\ chunks[ip + 1].op = OpCode.Return

\* C36: for every successfully compiled program, whenever the VM fetches an
\* instruction the instruction pointer is inside the chunk and at an opcode
\* byte, never at an operand byte or past the end; a run that raises no
\* runtime error ends by executing the final Return with result Ok.
C36_FetchesOpcodesUntilReturn ==
    compile_result = "Ok" =>
        /\ FetchesAtOpcodes
        /\ RunOverWithoutRuntimeErr => EndsByFinalReturn

\* C36's case: a compiled program with a constant has run to its end without
\* a runtime error
C36_Witness ==
    /\ RunOverWithoutRuntimeErr
    /\ values # <<>>
    /\ iterations > 1

\* C37: Compiler::compile never loops forever on a finite token sequence:
\* every statement attempt consumes at least one token, so the loop of
\* statement parsing followed by panic-mode recovery reaches the end of the
\* tokens even when recovery itself discards no token.  A statement attempt
\* moves on in the tokens, a recovery never moves back and hands over to the
\* next statement attempt, no position is beyond the tokens, and the loop,
\* once entered, ends: by the return of compile or by a panic.
C37_CompileEnds ==
    /\ [][pc = "compiling" /\ pos < Len(tokens) => pos' > pos]_vars
    /\ [][pc = "recovering" => pos' >= pos /\ pc' = "compiling"]_vars
    /\ [](pos <= Len(tokens))
    /\ (pc = "compiling") ~> (pc \in {"compiled", "crashed"})

\* C37's case: compile has returned after a statement that failed at the
\* first of three tokens and a recovery that discarded no token
C37_Witness ==
    /\ pc = "compiled"
    /\ Len(tokens) = 3
    /\ tokens[2].kind = "Var"
    /\ Len(errs) > 1

\* The spelling of each token kind that has one
FixedSpellings ==
    KeywordSpellings
    @@ ("LeftParen" :> <<"(">>) @@ ("RightParen" :> <<")">>) @@ ("LeftBrace" :> <<"{">>)
    @@ ("RightBrace" :> <<"}">>) @@ ("Comma" :> <<",">>) @@ ("Dot" :> <<".">>)
    @@ ("Minus" :> <<"-">>) @@ ("Plus" :> <<"+">>) @@ ("Semicolon" :> <<";">>)
    @@ ("Slash" :> <<"/">>) @@ ("Star" :> <<"*">>) @@ ("Bang" :> <<"!">>)
    @@ ("BangEqual" :> <<"!", "=">>) @@ ("Equal" :> <<"=">>)
    @@ ("EqualEqual" :> <<"=", "=">>) @@ ("Greater" :> <<">">>)
    @@ ("GreaterEqual" :> <<">", "=">>) @@ ("Less" :> <<"<">>)
    @@ ("LessEqual" :> <<"<", "=">>)

\* digits, and one '.' at most, with digits on both sides of it
IsNumberText(text) ==
    /\ text # <<>>
    /\ \A i \in 1..Len(text) : text[i] \in Digits \cup {"."}
    /\ text[1] \in Digits /\ text[Len(text)] \in Digits
    /\ Cardinality({i \in 1..Len(text) : text[i] = "."}) <= 1

\* from a quote through the first later quote no backslash stands before
IsStringText(text) ==
    /\ Len(text) >= 2
    /\ text[1] = "\"" /\ text[Len(text)] = "\""
    /\ \A i \in 2..Len(text) :
          (text[i] = "\"" /\ text[i - 1] # "\\") => i = Len(text)

IsIdentifierText(text) ==
    /\ text # <<>>
    /\ text[1] \in IdentStart
    /\ \A i \in 1..Len(text) : text[i] \in IdentPart
    /\ text \notin Spellings

IsTextOf(kind, text) ==
    CASE kind = "Number" -> IsNumberText(text)
      [] kind = "String" -> IsStringText(text)
      [] kind = "Identifier" -> IsIdentifierText(text)
      [] OTHER -> kind \in DOMAIN FixedSpellings /\ text = FixedSpellings[kind]

\* the tokens among the items yielded so far
YieldedTokens == SelectSeq(stream, LAMBDA item : item.ok)

\* C38: for every token the tokenizer yields, start.byte < end.byte <= the
\* length of the source, and the source text in start.byte..end.byte is
\* exactly the token's text (a String token's range includes both quotes);
\* successive tokens have non-overlapping byte ranges in increasing order.
C38_TokenRanges ==
    /\ \A k \in 1..Len(YieldedTokens) :
          /\ 0 <= YieldedTokens[k].start.byte
          /\ YieldedTokens[k].start.byte < YieldedTokens[k].end.byte
          /\ YieldedTokens[k].end.byte <= Len(source)
          /\ IsTextOf(YieldedTokens[k].kind,
                      SubSeq(source, YieldedTokens[k].start.byte + 1,
                             YieldedTokens[k].end.byte))
    /\ \A k \in 1..(Len(YieldedTokens) - 1) :
          YieldedTokens[k].end.byte <= YieldedTokens[k + 1].start.byte

\* C38's case: a String token over three characters, both quotes among
\* them, and a Number token right behind it
C38_Witness ==
    /\ pc = "tokenized"
    /\ Len(YieldedTokens) = 2
    /\ YieldedTokens[1].kind = "String"
    /\ YieldedTokens[1].start.byte = 0
    /\ YieldedTokens[1].end.byte = 3
    /\ YieldedTokens[2].kind = "Number"
    /\ YieldedTokens[2].start.byte = 3

\* C39: FixedVec is a bounded LIFO stack: after any sequence of push and pop,
\* 0 <= len <= N and slot i is populated exactly when i < len (so get(i) is
\* Some exactly for i < len and iter yields exactly the len stored values in
\* push order); pop returns the most recently pushed value not yet popped, or
\* None when empty; push on a full vector returns AlreadyFull and leaves
\* length and contents unchanged.  In terms of the values iter yields: a push
\* that succeeds appends its value to them, a pop removes the last of them
\* and returns it.
C39_BoundedLifo ==
    /\ [](/\ 0 <= len /\ len <= Capacity
          /\ \A i \in 0..Capacity : (get(i) # <<>>) <=> (i < len)
          /\ Len(iter) = len
          /\ \A i \in 0..(len - 1) : <<iter[i + 1]>> = get(i))
    /\ [][fv_log'.op = "push" =>
             IF len < Capacity
             THEN fv_log'.ok /\ iter' = Append(iter, fv_log'.val)
             ELSE ~fv_log'.ok /\ len' = len /\ arr' = arr]_fvars
    /\ [][fv_log'.op = "pop" =>
             IF len > 0
             THEN fv_log'.returned = <<iter[len]>> /\ iter' = SubSeq(iter, 1, len - 1)
             ELSE fv_log'.returned = <<>> /\ len' = len /\ arr' = arr]_fvars

\* C39's case: the vector was full, and a pop has returned the value pushed
\* last and left the two pushed before it
C39_Witness ==
    /\ fv_log.op = "pop"
    /\ fv_log.returned = <<"z">>
    /\ len = Capacity - 1
    /\ iter = <<"x", "y">>

\* C6: run maps every outcome to an exit code: 0 when the VM reaches Return
\* or stops at the iteration ceiling, 65 when compile returns errors (the VM
\* is then never run), 70 on a runtime error, and a code distinct from those
\* when the VM reports an internal panic.
C6_ExitCodes ==
    pc = "exited" =>
        /\ compile_result = "Err" => exit_code = 65 /\ iterations = 0 /\ vm_result = "none"
        /\ compile_result = "Ok" => vm_result # "none"
        /\ vm_result \in {"Ok", "OutOfIterations"} => exit_code = 0
        /\ vm_result = "RuntimeErr" => exit_code = 70
        /\ vm_result = "Panic" => exit_code \notin {0, 65, 70}

\* C6's case: run has returned after the VM reported an internal panic
C6_Witness == pc = "exited" /\ vm_result = "Panic" /\ exit_code # -1

\* C7: Compiler::compile returns Err if and only if at least one error was
\* recorded during the pass; when it returns Ok, the last byte of the chunk
\* is the Return opcode.
C7_ErrIffErrorRecorded ==
    compile_result # "none" /\ LexErrCount(src) = 0 =>
        /\ compile_result = "Err" <=> Len(errs) > 0
        /\ compile_result = "Ok" => chunks # <<>> /\ chunks[Len(chunks)].op = OpCode.Return

\* C7's case: the pass recorded an error and Compiler::compile returned
C7_Witness ==
    /\ pc = "compiled"
    /\ LexErrCount(src) = 0
    /\ Len(errs) > 0
    /\ Len(chunks) > 1

\* C8: every lexical error the tokenizer yields is reported by compile: the
\* returned list has exactly one entry per error yielded, and no bytecode is
\* produced.
C8_EveryLexErrorReported ==
    compile_result # "none" /\ LexErrCount(src) > 0 =>
        /\ compile_result = "Err"
        /\ Len(errs) = LexErrCount(src)
        /\ chunks = <<>>

\* The literals of a source, and whether its last statement is terminated
LiteralCount(lexemes) ==
    Cardinality({i \in 1..Len(lexemes) : lexemes[i].kind \in LiteralKinds})
EndsTerminated(lexemes) == lexemes # <<>> /\ lexemes[Len(lexemes)].kind = "Semicolon"

====
